---- MODULE Spec2Model ----
(***************************************************************************)
(* A model of the Rune C code generator: the primitive / C standard type   *)
(* mapping, the recursive size resolution, the struct layout engine        *)
(* (sort_members, sort_non_aligned, estimate_size), the global sizing pass *)
(* (CConfigurations::parse), the enum and bitfield generators and the      *)
(* message descriptor generator (output_source).                           *)
(*                                                                         *)
(* The generator is a pure, single-threaded transformation.  Each          *)
(* specification below draws the inputs of one family of operations from   *)
(* bounded sets in its initial predicate and applies the operation in an   *)
(* action, leaving the value the code returns in `result`.                 *)
(***************************************************************************)
EXTENDS Integers, Sequences, FiniteSets, TLC

VARIABLES
    pc,                  \* which operation has been applied ("init" before any)
    configurations,      \* CompileConfigurations of the run
    struct_definition,   \* the StructDefinition an operation is applied to
    enum_definition,     \* the EnumDefinition an operation is applied to
    bitfield_definition, \* the BitfieldDefinition an operation is applied to
    primitive,           \* the Primitive an operation is applied to
    file_descriptions,   \* the list of RuneFileDescription of the run
    build,               \* "debug" or "release": the overflow behaviour of the build
    numeric_literal,     \* the NumericLiteral an operation is applied to
    c_configurations,    \* the CConfigurations of the run, once parse has returned
    file_index,          \* the position of output_c_files in the list of files
    output_files,        \* the files written to the output folder, in order
    result               \* what the applied operation returned

vars == <<pc, configurations, struct_definition, enum_definition,
          bitfield_definition, primitive, file_descriptions, build, numeric_literal,
          c_configurations, file_index, output_files, result>>

\* The value of a variable an operation does not read.
Unused == "unused"

----------------------------------------------------------------------------
(* Bounds of the model *)

\* Longest member list of a struct drawn by the layout specification.
MaxMembers == 3

----------------------------------------------------------------------------
(* Result<T, CompilerError> *)

Ok(v) == [ok |-> TRUE, value |-> v, error |-> "None"]

Err(e) == [ok |-> FALSE, value |-> 0, error |-> e]

\* An abnormal end of the process (panic!, unreachable!, overflow check).
Panic == [ok |-> FALSE, value |-> 0, error |-> "panic"]

----------------------------------------------------------------------------
(* architecture.rs, c_standard.rs *)

Architectures == {"_32Bit", "_64Bit"}

byte_size(architecture) == IF architecture = "_32Bit" THEN 4 ELSE 8

C89 == 0
C95 == 1
C99 == 2
C11 == 3
C17 == 4
C23 == 5

CStandards == {C89, C95, C99, C11, C17, C23}

allows_boolean(c_standard) == c_standard >= C99

allows_designated_initializers(c_standard) == c_standard >= C99

\* integer_types_since_c95: allows_integer_types with the revision one too early.
integer_types_since_c95(c_standard) == c_standard >= C95

allows_integer_types(c_standard) == c_standard >= C99

allows_enum_backing_type(c_standard) == c_standard >= C23

----------------------------------------------------------------------------
(* c_utilities.rs: Primitive *)

Primitives == {"Bool", "Char", "I8", "U8", "I16", "U16", "F32", "I32", "U32",
               "F64", "I64", "U64", "I128", "U128"}

Primitive_c_size(p) ==
    CASE p \in {"Bool", "Char", "I8", "U8"} -> 1
      [] p \in {"I16", "U16"} -> 2
      [] p \in {"F32", "I32", "U32"} -> 4
      [] p \in {"F64", "I64", "U64"} -> 8
      [] p \in {"I128", "U128"} -> 16

\* Primitive::to_c_type: the C type name, or the standard-mismatch error.
to_c_type(p, c_standard) ==
    CASE p = "Bool" -> Ok(IF allows_boolean(c_standard) THEN "bool" ELSE "char")
      [] p = "Char" -> Ok("char")
      [] p = "I8" -> Ok(IF allows_integer_types(c_standard) THEN "int8_t" ELSE "signed char")
      [] p = "U8" -> Ok(IF allows_integer_types(c_standard) THEN "uint8_t" ELSE "unsigned char")
      [] p = "I16" -> Ok(IF allows_integer_types(c_standard) THEN "int16_t" ELSE "signed short")
      [] p = "U16" -> Ok(IF allows_integer_types(c_standard) THEN "uint16_t" ELSE "unsigned short")
      [] p = "F32" -> Ok("float")
      [] p = "I32" -> Ok(IF allows_integer_types(c_standard) THEN "int32_t" ELSE "signed long")
      [] p = "U32" -> Ok(IF allows_integer_types(c_standard) THEN "uint32_t" ELSE "unsigned long")
      [] p = "F64" -> Ok("double")
      [] p = "I64" -> IF allows_integer_types(c_standard) THEN Ok("int64_t")
                      ELSE Err("SourceAndCStandardMismatch")
      [] p = "U64" -> IF allows_integer_types(c_standard) THEN Ok("uint64_t")
                      ELSE Err("SourceAndCStandardMismatch")
      [] p \in {"I128", "U128"} ->
            Ok(IF allows_integer_types(c_standard) THEN "uint8_t[16]" ELSE "unsigned char[16]")

\* scalar_initializer: c_initializer with "0" for the 128-bit integers too.
scalar_initializer(p, c_standard) ==
    CASE p = "Bool" -> IF allows_boolean(c_standard) THEN "false" ELSE "0"
      [] p \in {"F32", "F64"} -> "0.0"
      [] OTHER -> "0"

\* Primitive::c_initializer: the zero-initializer literal.
c_initializer(p, c_standard) ==
    CASE p = "Bool" -> IF allows_boolean(c_standard) THEN "false" ELSE "0"
      [] p \in {"Char", "I8", "U8", "I16", "U16", "I32", "U32", "I64", "U64"} -> "0"
      [] p \in {"F32", "F64"} -> "0.0"
      [] p \in {"I128", "U128"} -> "{ 0 }"

\* Primitive::create_c_variable: the declaration of a variable `name`, as the
\* type name, the variable name and the array length (0 for no array).
create_c_variable(p, name, c_standard) ==
    IF p \in {"I128", "U128"}
    THEN LET type == to_c_type("U8", c_standard)
         IN  IF ~type.ok THEN type
             ELSE Ok([type |-> type.value, name |-> name, array |-> Primitive_c_size(p)])
    ELSE LET type == to_c_type(p, c_standard)
         IN  IF ~type.ok THEN type
             ELSE Ok([type |-> type.value, name |-> name, array |-> 0])

----------------------------------------------------------------------------
(* rune_parser types, as the generator reads them *)

\* FieldType
PrimitiveField(p) == [tag |-> "Primitive", primitive |-> p]
UserDefinedField(name) == [tag |-> "UserDefined", name |-> name]
ArrayField(array_type, array_size) ==
    [tag |-> "Array", array_type |-> array_type, array_size |-> array_size]
EmptyField == [tag |-> "Empty"]

\* ArrayType
ArrayPrimitive(p) == [tag |-> "Primitive", primitive |-> p]
ArrayUserDefined(name) == [tag |-> "UserDefined", name |-> name]

\* NumericLiteral: an integer literal holds a 64-bit value, kept as its eight
\* bytes, most significant first.
PositiveInteger(bytes) == [kind |-> "PositiveInteger", bytes |-> bytes]
NegativeInteger(bytes) == [kind |-> "NegativeInteger", bytes |-> bytes]
BooleanLiteral(b) == [kind |-> "Boolean", bytes |-> <<0, 0, 0, 0, 0, 0, 0, IF b THEN 1 ELSE 0>>]
FloatLiteral(bytes) == [kind |-> "Float", bytes |-> bytes]

\* The 64-bit value whose low two bytes are hi and lo.
Small(hi, lo) == <<0, 0, 0, 0, 0, 0, hi, lo>>

\* The number a 64-bit value stands for (values below 2^31 only).
RECURSIVE BytesValue(_)
BytesValue(bytes) ==
    IF bytes = <<>> THEN 0
    ELSE 256 * BytesValue(SubSeq(bytes, 1, Len(bytes) - 1)) + bytes[Len(bytes)]

\* DefineValue
NoValue == [tag |-> "NoValue"]
DefineLiteral(literal) == [tag |-> "NumericLiteral", literal |-> literal]

\* ArraySize
ArraySizeInteger(n) == [tag |-> "Integer", value |-> n]
ArraySizeUserDefinition(define_value) == [tag |-> "UserDefinition", define |-> define_value]

\* UserDefinitionLink
NoLink == [tag |-> "NoLink"]
BitfieldLink(backing_type) == [tag |-> "BitfieldLink", backing_type |-> backing_type]
EnumLink(backing_type) == [tag |-> "EnumLink", backing_type |-> backing_type]
StructLink(name, members) == [tag |-> "StructLink", name |-> name, members |-> members]

\* FieldIndex
Numeric(n) == [tag |-> "Numeric", value |-> n]
Verifier == [tag |-> "Verifier"]

StructMember(identifier, data_type, index, link) ==
    [identifier |-> identifier, data_type |-> data_type, index |-> index,
     user_definition_link |-> link]

----------------------------------------------------------------------------
(* c_utilities.rs: CStructMember::c_size *)

\* The element count of an array member (c_utilities.rs, c_size, array size).
array_size(field_size) ==
    IF field_size.tag = "Integer" THEN Ok(field_size.value)
    ELSE IF field_size.define.tag = "NumericLiteral"
              /\ field_size.define.literal.kind = "PositiveInteger"
         THEN Ok(BytesValue(field_size.define.literal.bytes))
         ELSE Err("MalformedSource")

RECURSIVE c_size(_)
RECURSIVE struct_size(_, _)

\* for member in &struct_definition.members { total += member.c_size()?; }
struct_size(members, total) ==
    IF members = <<>> THEN Ok(total)
    ELSE LET size == c_size(Head(members))
         IN  IF ~size.ok THEN size
             ELSE struct_size(Tail(members), total + size.value)

\* padded_linked_size: linked_size with one byte added to a linked struct.
padded_linked_size(link) ==
    CASE link.tag = "NoLink" -> Err("MalformedSource")
      [] link.tag = "BitfieldLink" -> Ok(Primitive_c_size(link.backing_type))
      [] link.tag = "EnumLink" -> Ok(Primitive_c_size(link.backing_type))
      [] link.tag = "StructLink" -> struct_size(link.members, 1)

\* The size of what a user-defined member or array element is linked to.
linked_size(link) ==
    CASE link.tag = "NoLink" -> Err("MalformedSource")
      [] link.tag = "BitfieldLink" -> Ok(Primitive_c_size(link.backing_type))
      [] link.tag = "EnumLink" -> Ok(Primitive_c_size(link.backing_type))
      [] link.tag = "StructLink" -> struct_size(link.members, 0)

c_size(member) ==
    CASE member.data_type.tag = "Array" ->
            LET count == array_size(member.data_type.array_size)
            IN  IF ~count.ok THEN count
                ELSE IF member.data_type.array_type.tag = "Primitive"
                     THEN Ok(Primitive_c_size(member.data_type.array_type.primitive)
                                 * count.value)
                     ELSE LET element == linked_size(member.user_definition_link)
                          IN  IF ~element.ok THEN element
                              ELSE Ok(element.value * count.value)
      [] member.data_type.tag = "Empty" -> Ok(0)
      [] member.data_type.tag = "Primitive" -> Ok(Primitive_c_size(member.data_type.primitive))
      [] member.data_type.tag = "UserDefined" -> linked_size(member.user_definition_link)

----------------------------------------------------------------------------
(* c_utilities.rs: the struct layout engine *)

SizedStructMember(member, size) == [member |-> member, size |-> size]

\* first_fit: best_fit that stops at the first small member that fits.
RECURSIVE first_fit(_, _, _, _, _)
first_fit(small_values, list_index, leftover_bytes, best_found_index, best_found_size) ==
    IF list_index > Len(small_values)
    THEN best_found_index
    ELSE IF small_values[list_index].size <= leftover_bytes
         THEN list_index
         ELSE first_fit(small_values, list_index + 1, leftover_bytes,
                        best_found_index, best_found_size)

\* The scan of the small members for the best fit of one gap: the running
\* (best_found_index, best_found_size) after the members from list_index on.
RECURSIVE best_fit(_, _, _, _, _)
best_fit(small_values, list_index, leftover_bytes, best_found_index, best_found_size) ==
    IF list_index > Len(small_values)
    THEN best_found_index
    ELSE LET small == small_values[list_index]
         IN  IF small.size <= leftover_bytes
                   /\ leftover_bytes - small.size < best_found_size
             THEN best_fit(small_values, list_index + 1, leftover_bytes,
                           list_index, leftover_bytes - small.size)
             ELSE best_fit(small_values, list_index + 1, leftover_bytes,
                           best_found_index, best_found_size)

\* remove_nothing: remove leaving the list as it is.
remove_nothing(s, i) == s

\* The sequence s without its i-th element (Vec::remove).
remove(s, i) == SubSeq(s, 1, i - 1) \o SubSeq(s, i + 1, Len(s))

\* The members larger than the word size, in order (large_values).
RECURSIVE large_of(_, _)
large_of(s, sorting_value) ==
    IF s = <<>> THEN <<>>
    ELSE (IF Head(s).size > sorting_value THEN <<Head(s)>> ELSE <<>>)
             \o large_of(Tail(s), sorting_value)

\* The members no larger than the word size, in order (small_values).
RECURSIVE small_of(_, _)
small_of(s, sorting_value) ==
    IF s = <<>> THEN <<>>
    ELSE (IF Head(s).size > sorting_value THEN <<>> ELSE <<Head(s)>>)
             \o small_of(Tail(s), sorting_value)

\* The loop over the large members.  `chosen` records, for the large members
\* handled so far, which small member was pushed for it (<<large identifier,
\* small identifier>>); the code keeps no such record, it is what the loop did.
RECURSIVE fill_gaps(_, _, _, _, _)
fill_gaps(large_values, small_values, non_aligned, chosen, sorting_value) ==
    IF large_values = <<>>
    THEN [non_aligned |-> non_aligned \o small_values, chosen |-> chosen]
    ELSE LET large == Head(large_values)
             leftover_bytes == sorting_value - (large.size % sorting_value)
             best_found_index == best_fit(small_values, 1, leftover_bytes, 0, sorting_value)
         IN  IF best_found_index = 0
             THEN fill_gaps(Tail(large_values), small_values,
                            Append(non_aligned, large), chosen, sorting_value)
             ELSE fill_gaps(Tail(large_values), remove(small_values, best_found_index),
                            non_aligned \o <<large, small_values[best_found_index]>>,
                            Append(chosen, <<large.member.identifier,
                                             small_values[best_found_index].member.identifier>>),
                            sorting_value)

sort_non_aligned_run(non_aligned, config) ==
    LET sorting_value == byte_size(config.architecture)
    IN  fill_gaps(large_of(non_aligned, sorting_value),
                  small_of(non_aligned, sorting_value), <<>>, <<>>, sorting_value)

sort_non_aligned(non_aligned, config) == sort_non_aligned_run(non_aligned, config).non_aligned

\* The members of a list of sized members.
members_of(sized) == [i \in 1..Len(sized) |-> sized[i].member]

\* bucket_on_any_target: bucket with the 8-aligned test on every architecture.
RECURSIVE bucket_on_any_target(_, _, _, _, _, _)
bucket_on_any_target(members, config, aligned_8, aligned_4, aligned_2, aligned_1) ==
    IF members = <<>>
    THEN Ok([aligned_8 |-> aligned_8, aligned_4 |-> aligned_4,
             aligned_2 |-> aligned_2, aligned_1 |-> aligned_1])
    ELSE LET member == Head(members)
             size == c_size(member)
             sized == SizedStructMember(member, size.value)
         IN  IF ~size.ok THEN size
             ELSE IF size.value = 0
             THEN bucket_on_any_target(Tail(members), config, aligned_8, aligned_4,
                                       aligned_2, aligned_1)
             ELSE IF size.value % 8 = 0
             THEN bucket_on_any_target(Tail(members), config, Append(aligned_8, sized),
                                       aligned_4, aligned_2, aligned_1)
             ELSE IF size.value % 4 = 0
             THEN bucket_on_any_target(Tail(members), config, aligned_8,
                                       Append(aligned_4, sized), aligned_2, aligned_1)
             ELSE IF size.value % 2 = 0
             THEN bucket_on_any_target(Tail(members), config, aligned_8, aligned_4,
                                       Append(aligned_2, sized), aligned_1)
             ELSE bucket_on_any_target(Tail(members), config, aligned_8, aligned_4,
                                       aligned_2, Append(aligned_1, sized))

\* The bucketing loop of sort_members over the members still to visit.
RECURSIVE bucket(_, _, _, _, _, _)
bucket(members, config, aligned_8, aligned_4, aligned_2, aligned_1) ==
    IF members = <<>>
    THEN Ok([aligned_8 |-> aligned_8, aligned_4 |-> aligned_4,
             aligned_2 |-> aligned_2, aligned_1 |-> aligned_1])
    ELSE LET member == Head(members)
             size == c_size(member)
             sized == SizedStructMember(member, size.value)
         IN  IF ~size.ok THEN size
             ELSE IF size.value = 0
             THEN bucket(Tail(members), config, aligned_8, aligned_4, aligned_2, aligned_1)
             ELSE IF size.value % 8 = 0 /\ config.architecture = "_64Bit"
             THEN bucket(Tail(members), config, Append(aligned_8, sized), aligned_4,
                         aligned_2, aligned_1)
             ELSE IF size.value % 4 = 0
             THEN bucket(Tail(members), config, aligned_8, Append(aligned_4, sized),
                         aligned_2, aligned_1)
             ELSE IF size.value % 2 = 0
             THEN bucket(Tail(members), config, aligned_8, aligned_4,
                         Append(aligned_2, sized), aligned_1)
             ELSE bucket(Tail(members), config, aligned_8, aligned_4, aligned_2,
                         Append(aligned_1, sized))

\* swapped_full_list: full_list with the 4-aligned bucket appended first.
swapped_full_list(aligned_8, aligned_4, aligned_2, aligned_1) ==
    members_of(aligned_4) \o members_of(aligned_8)
        \o members_of(aligned_2) \o members_of(aligned_1)

\* The four buckets appended into the full sorted list.
full_list(aligned_8, aligned_4, aligned_2, aligned_1) ==
    members_of(aligned_8) \o members_of(aligned_4)
        \o members_of(aligned_2) \o members_of(aligned_1)

\* declared_members: sort_members handing back the declared list as it is.
declared_members(definition, config) ==
    LET buckets == bucket(definition.members, config, <<>>, <<>>, <<>>, <<>>)
    IN  IF ~buckets.ok THEN buckets ELSE Ok(definition.members)

sort_members(definition, config) ==
    LET buckets == bucket(definition.members, config, <<>>, <<>>, <<>>, <<>>)
    IN  IF ~buckets.ok THEN buckets
        ELSE Ok(full_list(buckets.value.aligned_8, buckets.value.aligned_4,
                          buckets.value.aligned_2,
                          sort_non_aligned(buckets.value.aligned_1, config)))

\* The alignment a member of a given size is assumed to need.
\* natural_alignment_size: member_alignment_size with 4 as the widest requirement.
natural_alignment_size(size) ==
    CASE size = 1 -> 1
      [] size = 2 -> 2
      [] size >= 3 -> 4

member_alignment_size(size) ==
    CASE size = 1 -> 1
      [] size = 2 -> 2
      [] size \in 3..4 -> 4
      [] size >= 5 -> 8

\* inverted_padding: the pack_data test of estimated_padding inverted.
inverted_padding(config, total_size, alignment) ==
    IF config.pack_data /\ total_size % alignment # 0
    THEN alignment - (total_size % alignment)
    ELSE 0

\* The padding estimate_size adds before a member.
estimated_padding(config, total_size, alignment) ==
    IF ~config.pack_data /\ total_size % alignment # 0
    THEN alignment - (total_size % alignment)
    ELSE 0

\* The padding loop of estimate_size over the members still to visit.
RECURSIVE walk(_, _, _)
walk(struct_list, config, total_size) ==
    IF struct_list = <<>> THEN Ok(total_size)
    ELSE LET size == c_size(Head(struct_list))
         IN  IF ~size.ok THEN size
             ELSE IF size.value = 0 THEN walk(Tail(struct_list), config, total_size)
             ELSE LET alignment == member_alignment_size(size.value)
                      padding == estimated_padding(config, total_size, alignment)
                  IN  walk(Tail(struct_list), config, total_size + padding + size.value)

\* The member order estimate_size walks.
struct_list(definition, config) ==
    IF config.sort THEN sort_members(definition, config) ELSE Ok(definition.members)

estimate_size(definition, config) ==
    LET list == struct_list(definition, config)
    IN  IF ~list.ok THEN list ELSE walk(list.value, config, 0)

----------------------------------------------------------------------------
(* The layout specification: a struct and a configuration are drawn, then  *)
(* one of sort_members, sort_non_aligned, estimate_size is applied.        *)

\* A define with a positive integer value, as an array size names it.
DefineOf(hi, lo) == DefineLiteral(PositiveInteger(Small(hi, lo)))

\* The kinds of member the drawn structs are made of: data type and link.
MemberKinds == <<
    [data_type |-> PrimitiveField("U8"), link |-> NoLink],
    [data_type |-> PrimitiveField("U16"), link |-> NoLink],
    [data_type |-> ArrayField(ArrayPrimitive("U8"), ArraySizeInteger(3)), link |-> NoLink],
    [data_type |-> PrimitiveField("U32"), link |-> NoLink],
    [data_type |-> UserDefinedField("Inner"),
     link |-> StructLink("Inner", <<StructMember(1, PrimitiveField("U8"), Numeric(0), NoLink),
                                    StructMember(2, PrimitiveField("U32"), Numeric(1), NoLink)>>)],
    [data_type |-> ArrayField(ArrayPrimitive("U16"), ArraySizeInteger(3)), link |-> NoLink],
    [data_type |-> ArrayField(ArrayUserDefined("Flags"), ArraySizeInteger(7)),
     link |-> BitfieldLink("U8")],
    [data_type |-> PrimitiveField("U64"), link |-> NoLink],
    [data_type |-> ArrayField(ArrayPrimitive("Char"), ArraySizeUserDefinition(DefineOf(0, 13))),
     link |-> NoLink],
    [data_type |-> UserDefinedField("Unit"), link |-> StructLink("Unit", <<>>)],
    [data_type |-> UserDefinedField("Missing"), link |-> NoLink]
>>

\* The struct whose i-th declared member is of kind pick[i].  A member's
\* identifier is its position in the declaration, its field index one less.
StructOf(name, pick) ==
    [name |-> name,
     members |-> [i \in 1..Len(pick) |->
                     StructMember(i, MemberKinds[pick[i]].data_type, Numeric(i - 1),
                                  MemberKinds[pick[i]].link)]]

LayoutConfigurations ==
    [architecture : Architectures, pack_data : BOOLEAN, sort : BOOLEAN,
     pack_metadata : {FALSE}, c_standard : {C23}]

InitLayout ==
    /\ pc = "init"
    /\ configurations \in LayoutConfigurations
    /\ \E n \in 0..MaxMembers :
          \E pick \in [1..n -> 1..Len(MemberKinds)] :
             struct_definition = StructOf("Message", pick)
    /\ enum_definition = Unused
    /\ bitfield_definition = Unused
    /\ primitive = Unused
    /\ file_descriptions = Unused
    /\ build = Unused
    /\ numeric_literal = Unused
    /\ c_configurations = Unused
    /\ file_index = Unused
    /\ output_files = Unused
    /\ result = Unused

SortMembers ==
    /\ pc = "init"
    /\ pc' = "sort_members"
    /\ result' = sort_members(struct_definition, configurations)
    /\ UNCHANGED <<configurations, struct_definition, enum_definition,
                   bitfield_definition, primitive, file_descriptions, build,
                   numeric_literal, c_configurations, file_index, output_files>>

\* sort_non_aligned as sort_members calls it: on the bucket of unaligned members.
SortNonAligned ==
    /\ pc = "init"
    /\ LET buckets == bucket(struct_definition.members, configurations,
                             <<>>, <<>>, <<>>, <<>>)
       IN  /\ buckets.ok
           /\ result' = sort_non_aligned_run(buckets.value.aligned_1, configurations)
    /\ pc' = "sort_non_aligned"
    /\ UNCHANGED <<configurations, struct_definition, enum_definition,
                   bitfield_definition, primitive, file_descriptions, build,
                   numeric_literal, c_configurations, file_index, output_files>>

EstimateSize ==
    /\ pc = "init"
    /\ pc' = "estimate_size"
    /\ result' = estimate_size(struct_definition, configurations)
    /\ UNCHANGED <<configurations, struct_definition, enum_definition,
                   bitfield_definition, primitive, file_descriptions, build,
                   numeric_literal, c_configurations, file_index, output_files>>

NextLayout == SortMembers \/ SortNonAligned \/ EstimateSize

SpecLayout == InitLayout /\ [][NextLayout]_vars

----------------------------------------------------------------------------
(* Properties of the layout engine *)

\* The resolved sizes of the declared members, when all resolve.
SizesResolve == \A i \in 1..Len(struct_definition.members) :
                    c_size(struct_definition.members[i]).ok

SizeOf(member) == c_size(member).value

\* Sum of the sizes of the first n members of a list.
RECURSIVE PrefixSum(_, _)
PrefixSum(list, n) == IF n = 0 THEN 0 ELSE PrefixSum(list, n - 1) + SizeOf(list[n])

\* The alignment requirement a size has by the thresholds 1, 2, 3-4, 5 and up.
Requirement(size) == IF size = 1 THEN 1 ELSE IF size = 2 THEN 2
                     ELSE IF size <= 4 THEN 4 ELSE 8

\* Every member of the list of non-zero size starts at a multiple of its requirement.
AlignedEverywhere(list) ==
    \A i \in 1..Len(list) :
        SizeOf(list[i]) # 0 => PrefixSum(list, i - 1) % Requirement(SizeOf(list[i])) = 0

PackedConfig == [configurations EXCEPT !.pack_data = TRUE]

\* C1: estimate_size with pack_data = false is >= estimate_size of the same
\* struct with pack_data = true, and the two are equal when at every member of
\* the walked order the running offset is a multiple of the member's
\* alignment requirement.
C1_UnpackedAtLeastPacked ==
    (pc = "estimate_size" /\ ~configurations.pack_data /\ result.ok) =>
        LET packed == estimate_size(struct_definition, PackedConfig)
            order == struct_list(struct_definition, configurations).value
        IN  /\ packed.ok
            /\ result.value >= packed.value
            /\ packed.value = PrefixSum(order, Len(order))
            /\ AlignedEverywhere(order) => result.value = packed.value

\* C1 witness: an unpacked estimate strictly above the packed one.
C1_Witness ==
    /\ pc = "estimate_size" /\ ~configurations.pack_data /\ result.ok
    /\ result.value > estimate_size(struct_definition, PackedConfig).value
    /\ Len(struct_definition.members) = 3

\* C2: for members of sizes 1, 8, 1 with sort on, pack_data off and a 64-bit
\* architecture, sort_members yields [8-byte member, first 1-byte member,
\* second 1-byte member] and estimate_size returns 16.
IsOneEightOne ==
    /\ Len(struct_definition.members) = 3
    /\ SizesResolve
    /\ [i \in 1..3 |-> SizeOf(struct_definition.members[i])] = <<1, 8, 1>>
    /\ configurations.sort /\ ~configurations.pack_data
    /\ configurations.architecture = "_64Bit"

C2_OneEightOne ==
    IsOneEightOne =>
        /\ pc = "sort_members" =>
              /\ result.ok
              /\ [i \in 1..Len(result.value) |-> result.value[i].identifier] = <<2, 1, 3>>
        /\ pc = "estimate_size" => result = Ok(16)

\* C10: estimate_size fails with ConfigurationError for every struct that
\* resolves to size 0, and never returns 0 as a successful result.
ResolvesToZero ==
    /\ SizesResolve
    /\ \A i \in 1..Len(struct_definition.members) : SizeOf(struct_definition.members[i]) = 0

C10_ZeroSizeFails ==
    pc = "estimate_size" =>
        /\ ResolvesToZero => result = Err("ConfigurationError")
        /\ ~(result.ok /\ result.value = 0)

\* The bucket a size falls in: 8, 4, 2 or 1 (unaligned).
ClassOf(size) ==
    IF size % 8 = 0 /\ configurations.architecture = "_64Bit" THEN 8
    ELSE IF size % 4 = 0 THEN 4
    ELSE IF size % 2 = 0 THEN 2
    ELSE 1

\* C3: in the list sort_members returns, every 8-aligned member precedes every
\* 4-aligned one, which precedes every 2-aligned one, which precedes every
\* unaligned one, and within the 8-, 4- and 2-aligned classes members keep
\* their declaration order.
C3_ClassesInOrder ==
    (pc = "sort_members" /\ result.ok) =>
        \A i, j \in 1..Len(result.value) :
            i < j =>
                LET ci == ClassOf(SizeOf(result.value[i]))
                    cj == ClassOf(SizeOf(result.value[j]))
                IN  /\ ci >= cj
                    /\ (ci = cj /\ ci # 1) =>
                          result.value[i].identifier < result.value[j].identifier

\* C3 witness: a sorted list with members of three classes that was declared
\* in another order.
C3_Witness ==
    /\ pc = "sort_members" /\ result.ok
    /\ result.value # struct_definition.members
    /\ Cardinality({ClassOf(SizeOf(result.value[i])) : i \in 1..Len(result.value)}) = 3

\* The declared members of odd size: what sort_non_aligned is given.
Positions(list, identifier) == {i \in 1..Len(list) : list[i].member.identifier = identifier}

UnalignedIdentifiers ==
    {struct_definition.members[i].identifier :
        i \in {k \in 1..Len(struct_definition.members) :
                  SizeOf(struct_definition.members[k]) % 2 = 1}}

\* C4: in sort_non_aligned no small member is the gap filler of two large
\* members, each member appears exactly once in the result, and a small
\* member chosen for a large member's gap is placed after that large member.
C4_OneGapPerSmall ==
    pc = "sort_non_aligned" =>
        /\ \A a, b \in 1..Len(result.chosen) :
              result.chosen[a][2] = result.chosen[b][2] => a = b
        /\ \A identifier \in UnalignedIdentifiers :
              Cardinality(Positions(result.non_aligned, identifier)) = 1
        /\ Len(result.non_aligned) = Cardinality(UnalignedIdentifiers)
        /\ \A a \in 1..Len(result.chosen) :
              \A l \in Positions(result.non_aligned, result.chosen[a][1]) :
                 \A s \in Positions(result.non_aligned, result.chosen[a][2]) : l < s

\* C4 witness: two large members and a small one that was declared before
\* the large member it fills.
C4_Witness ==
    /\ pc = "sort_non_aligned"
    /\ Len(result.chosen) = 1
    /\ Len(result.non_aligned) = 3
    /\ result.chosen[1][2] < result.chosen[1][1]
    /\ result.non_aligned[3].size > byte_size(configurations.architecture)

\* The class of a size: the largest of 8, 4, 2, 1 that divides it, where a
\* 32-bit target has no class 8 and takes 4 in its place.
AlignmentClass(size) ==
    LET divisor == CHOOSE d \in {1, 2, 4, 8} :
                      /\ size % d = 0
                      /\ \A e \in {1, 2, 4, 8} : size % e = 0 => e <= d
    IN  IF divisor = 8 /\ configurations.architecture = "_32Bit" THEN 4 ELSE divisor

\* The identifiers of the declared members of non-zero size in a class, in
\* declaration order.
DeclaredInClass(class) ==
    LET members == struct_definition.members
        chosen == SelectSeq(members, LAMBDA member :
                      SizeOf(member) # 0 /\ AlignmentClass(SizeOf(member)) = class)
    IN  [i \in 1..Len(chosen) |-> chosen[i].identifier]

\* C15: the list sort_members returns holds every member of non-zero size
\* exactly once, as four blocks: the members whose size is a multiple of 8
\* (64-bit targets only), then the other multiples of 4, then the other
\* multiples of 2, then the rest; on a 32-bit target the first block is
\* empty and the multiples of 8 stand in the block of 4.
C15_ExclusiveClasses ==
    (pc = "sort_members" /\ result.ok) =>
        LET in_8 == DeclaredInClass(8)
            in_4 == DeclaredInClass(4)
            in_2 == DeclaredInClass(2)
            in_1 == DeclaredInClass(1)
            sorted == [i \in 1..Len(result.value) |-> result.value[i].identifier]
            aligned == Len(in_8) + Len(in_4) + Len(in_2)
        IN  /\ Len(sorted) = aligned + Len(in_1)
            /\ SubSeq(sorted, 1, aligned) = in_8 \o in_4 \o in_2
            /\ {sorted[i] : i \in (aligned + 1)..Len(sorted)}
                  = {in_1[i] : i \in 1..Len(in_1)}
            /\ configurations.architecture = "_32Bit" =>
                  /\ in_8 = <<>>
                  /\ \A i \in 1..Len(result.value) :
                        SizeOf(result.value[i]) % 8 = 0 =>
                            /\ i <= Len(in_4)
                            /\ sorted[i] = in_4[i]

\* C15 witness: on a 32-bit target a member of 8 bytes stands behind the
\* member of 4 bytes declared before it.
C15_Witness ==
    /\ pc = "sort_members" /\ result.ok
    /\ configurations.architecture = "_32Bit"
    /\ Len(result.value) = 3
    /\ SizeOf(result.value[1]) = 4
    /\ SizeOf(result.value[2]) = 8
    /\ SizeOf(result.value[3]) = 2
    /\ struct_definition.members[1] = result.value[3]

\* The declared members of odd size with their sizes, in declaration order:
\* the list sort_members hands to sort_non_aligned.
Unaligned ==
    LET odd == SelectSeq(struct_definition.members, LAMBDA member : SizeOf(member) % 2 = 1)
    IN  [i \in 1..Len(odd) |-> [member |-> odd[i], size |-> SizeOf(odd[i])]]

WordSize == IF configurations.architecture = "_64Bit" THEN 8 ELSE 4

\* The gap behind a large member.
Leftover(large) == WordSize - (large.size % WordSize)

\* The positions of the pool whose member fits the gap behind the large member.
Fitting(large, pool) == {i \in 1..Len(pool) : pool[i].size <= Leftover(large)}

\* The position of the pool that leaves least of the gap, the first of equals.
Closest(large, pool) ==
    CHOOSE i \in Fitting(large, pool) :
        \A j \in Fitting(large, pool) :
            \/ pool[i].size > pool[j].size
            \/ pool[i].size = pool[j].size /\ i <= j

\* The large members in order, each followed by the closest fitting member of
\* the pool not used before, then what is left of the pool.
RECURSIVE BestFitOrder(_, _)
BestFitOrder(larges, pool) ==
    IF larges = <<>> THEN pool
    ELSE IF Fitting(Head(larges), pool) = {}
         THEN <<Head(larges)>> \o BestFitOrder(Tail(larges), pool)
         ELSE LET i == Closest(Head(larges), pool)
              IN  <<Head(larges), pool[i]>>
                     \o BestFitOrder(Tail(larges),
                                      SubSeq(pool, 1, i - 1) \o SubSeq(pool, i + 1, Len(pool)))

\* C16: sort_non_aligned returns the large members (size above the word size)
\* in their original order, each followed at once by the unused small member
\* that fits its leftover and leaves least of it (the first in pool order on
\* ties) or by nothing when none fits, with at most one small member per
\* large one, and then the unused small members in their original order.
C16_BestFit ==
    pc = "sort_non_aligned" =>
        /\ result.non_aligned =
              BestFitOrder(SelectSeq(Unaligned, LAMBDA sized : sized.size > WordSize),
                           SelectSeq(Unaligned, LAMBDA sized : sized.size <= WordSize))
        /\ Len(result.chosen)
              <= Len(SelectSeq(Unaligned, LAMBDA sized : sized.size > WordSize))

\* C16 witness: behind a member of 13 bytes on a 64-bit target stands the
\* member of 3 bytes, not the member of 1 byte declared before it.
C16_Witness ==
    /\ pc = "sort_non_aligned"
    /\ configurations.architecture = "_64Bit"
    /\ [i \in 1..Len(Unaligned) |-> Unaligned[i].size] = <<1, 13, 3>>
    /\ [i \in 1..Len(result.non_aligned) |-> result.non_aligned[i].size] = <<13, 3, 1>>

\* C16 witness: a large member no small member fits behind.
C16_WitnessNoFit ==
    /\ pc = "sort_non_aligned"
    /\ configurations.architecture = "_32Bit"
    /\ [i \in 1..Len(Unaligned) |-> Unaligned[i].size] = <<3, 7, 5>>
    /\ [i \in 1..Len(result.non_aligned) |-> result.non_aligned[i].size] = <<7, 5, 3>>

\* The least multiple of the requirement that is not below the offset.
RoundedUp(offset, requirement) == ((offset + requirement - 1) \div requirement) * requirement

\* The running offset after the first n members of a list; a member of size 0
\* leaves it where it is.
RECURSIVE OffsetAfter(_, _)
OffsetAfter(list, n) ==
    IF n = 0 THEN 0
    ELSE IF SizeOf(list[n]) = 0 THEN OffsetAfter(list, n - 1)
    ELSE RoundedUp(OffsetAfter(list, n - 1), Requirement(SizeOf(list[n]))) + SizeOf(list[n])

\* C17: estimate_size walks the layout order with a running offset; the
\* requirement of a member is 1 for size 1, 2 for size 2, 4 for sizes 3-4 and
\* 8 for sizes of 5 and more; with pack_data disabled the offset is rounded up
\* to a multiple of the requirement before the size is added, with pack_data
\* enabled the result is the plain sum of the member sizes.
C17_RunningOffset ==
    (pc = "estimate_size" /\ result.ok) =>
        LET order == struct_list(struct_definition, configurations).value
        IN  IF configurations.pack_data
            THEN result.value = PrefixSum(order, Len(order))
            ELSE result.value = OffsetAfter(order, Len(order))

\* C17 witness: members of 1, 3 and 8 bytes walked as declared without
\* packing: 3 bytes of padding before the second, 1 byte before the third.
C17_Witness ==
    /\ pc = "estimate_size" /\ ~configurations.pack_data /\ ~configurations.sort
    /\ Len(struct_definition.members) = 3 /\ SizesResolve
    /\ [i \in 1..3 |-> SizeOf(struct_definition.members[i])] = <<1, 3, 8>>
    /\ result = Ok(16)

\* C17 witness: the same members packed give the plain sum.
C17_WitnessPacked ==
    /\ pc = "estimate_size" /\ configurations.pack_data /\ ~configurations.sort
    /\ Len(struct_definition.members) = 3 /\ SizesResolve
    /\ [i \in 1..3 |-> SizeOf(struct_definition.members[i])] = <<1, 3, 8>>
    /\ result = Ok(12)

\* How often a declared member stands in a list of members.
Occurrences(list, member) == Cardinality({k \in 1..Len(list) : list[k] = member})

\* C26: sort_members returns a permutation of the declared members of
\* non-zero resolved size: each of them once, no member of size 0, nothing
\* that was not declared; a member of size 0 is dropped, it is no error.
C26_PermutationOfSized ==
    pc = "sort_members" =>
        /\ result.ok <=> SizesResolve
        /\ result.ok =>
              /\ \A i \in 1..Len(struct_definition.members) :
                    Occurrences(result.value, struct_definition.members[i])
                        = IF SizeOf(struct_definition.members[i]) = 0 THEN 0 ELSE 1
              /\ \A k \in 1..Len(result.value) :
                    \E i \in 1..Len(struct_definition.members) :
                        result.value[k] = struct_definition.members[i]

\* C26 witness: three declared members, one of size 0; the two others are
\* returned, in the other order.
C26_Witness ==
    /\ pc = "sort_members" /\ result.ok
    /\ Len(struct_definition.members) = 3
    /\ SizeOf(struct_definition.members[2]) = 0
    /\ result.value = <<struct_definition.members[3], struct_definition.members[1]>>

\* estimate_size of the drawn struct under the drawn configuration with the
\* sort flag set as given.
EstimateWithSort(sort) ==
    estimate_size(struct_definition, [configurations EXCEPT !.sort = sort])

\* C27: with pack_data disabled, for every struct and architecture the
\* estimate with sort enabled is at most the estimate with sort disabled.
C27_SortingNeverWorse ==
    (pc = "estimate_size" /\ ~configurations.pack_data /\ result.ok) =>
        /\ result = EstimateWithSort(configurations.sort)
        /\ EstimateWithSort(TRUE).ok /\ EstimateWithSort(FALSE).ok
        /\ EstimateWithSort(TRUE).value <= EstimateWithSort(FALSE).value

\* C27 for a 64-bit target and structs whose members all have a size of 1,
\* 2, 4 or 8 bytes: there it holds.
C27_WhenSizesArePowersOfTwo ==
    (configurations.architecture = "_64Bit"
        /\ SizesResolve
        /\ \A i \in 1..Len(struct_definition.members) :
              SizeOf(struct_definition.members[i]) \in {1, 2, 4, 8})
        => C27_SortingNeverWorse

\* A struct of u8, u32 and u64, declared in that order, 32-bit target, no
\* packing: 17 bytes estimated with sort enabled, 16 with sort disabled.
C27_SortedLarger ==
    /\ pc = "estimate_size" /\ ~configurations.pack_data /\ configurations.sort
    /\ configurations.architecture = "_32Bit"
    /\ Len(struct_definition.members) = 3
    /\ SizeOf(struct_definition.members[1]) = 1
    /\ SizeOf(struct_definition.members[2]) = 4
    /\ SizeOf(struct_definition.members[3]) = 8
    /\ result = Ok(17)
    /\ EstimateWithSort(FALSE) = Ok(16)

\* A struct of an array of 3 bytes and a 16-bit integer, declared in that
\* order, 64-bit target, no packing: 7 bytes estimated with sort enabled, 6
\* with sort disabled.
C27_SortedLargerOddSize ==
    /\ pc = "estimate_size" /\ ~configurations.pack_data /\ configurations.sort
    /\ configurations.architecture = "_64Bit"
    /\ Len(struct_definition.members) = 2
    /\ SizeOf(struct_definition.members[1]) = 3
    /\ SizeOf(struct_definition.members[2]) = 2
    /\ result = Ok(7)
    /\ EstimateWithSort(FALSE) = Ok(6)

\* A member linked to the drawn struct, and an array of three such elements.
LinkedToDrawn ==
    StructMember(0, UserDefinedField(struct_definition.name), Numeric(0),
                 StructLink(struct_definition.name, struct_definition.members))

ArrayOfDrawn ==
    StructMember(0, ArrayField(ArrayUserDefined(struct_definition.name), ArraySizeInteger(3)),
                 Numeric(0),
                 StructLink(struct_definition.name, struct_definition.members))

\* C30: for a member linked to a struct S, the size c_size gives (the sum of
\* the resolved sizes of the members of S, times the element count for an
\* array) equals estimate_size(S) with pack_data enabled, and is at most
\* estimate_size(S) under the same configuration with pack_data disabled.
C30_LinkedSizeIsPackedEstimate ==
    (pc = "estimate_size" /\ result.ok) =>
        /\ c_size(LinkedToDrawn).ok /\ c_size(ArrayOfDrawn).ok
        /\ c_size(LinkedToDrawn).value = PrefixSum(struct_definition.members,
                                                   Len(struct_definition.members))
        /\ c_size(ArrayOfDrawn).value = 3 * c_size(LinkedToDrawn).value
        /\ IF configurations.pack_data
           THEN c_size(LinkedToDrawn).value = result.value
           ELSE c_size(LinkedToDrawn).value <= result.value

\* C30 witnesses: a struct of three members estimated without padding at the
\* size c_size gives a member linked to it; and one estimated with padding
\* above that size.
C30_Witness ==
    /\ pc = "estimate_size" /\ result.ok /\ configurations.pack_data
    /\ Len(struct_definition.members) = 3
    /\ result.value = 13
    /\ c_size(LinkedToDrawn) = Ok(13)

C30_WitnessPadded ==
    /\ pc = "estimate_size" /\ result.ok /\ ~configurations.pack_data
    /\ c_size(LinkedToDrawn) = Ok(13)
    /\ result.value > 13

----------------------------------------------------------------------------
(* The member specification: one struct member is drawn, then c_size is    *)
(* applied to it.                                                          *)

\* The array sizes of the drawn members: literals and defines of every kind
\* of value.
DrawnArraySizes ==
    {ArraySizeInteger(0), ArraySizeInteger(1), ArraySizeInteger(3),
     ArraySizeUserDefinition(DefineOf(0, 0)),
     ArraySizeUserDefinition(DefineOf(0, 2)),
     ArraySizeUserDefinition(DefineLiteral(NegativeInteger(Small(0, 2)))),
     ArraySizeUserDefinition(DefineLiteral(FloatLiteral(Small(0, 2)))),
     ArraySizeUserDefinition(DefineLiteral(BooleanLiteral(TRUE))),
     ArraySizeUserDefinition(NoValue)}

\* The links of the drawn user-defined members: none, a bitfield, an enum, a
\* struct of 5 bytes, a struct without members, a struct with an unlinked
\* member.
DrawnLinks ==
    {NoLink, BitfieldLink("U16"), EnumLink("U8"),
     StructLink("Inner", <<StructMember(1, PrimitiveField("U8"), Numeric(0), NoLink),
                           StructMember(2, PrimitiveField("U32"), Numeric(1), NoLink)>>),
     StructLink("Unit", <<>>),
     StructLink("Outer", <<StructMember(1, PrimitiveField("U8"), Numeric(0), NoLink),
                           StructMember(2, UserDefinedField("Missing"), Numeric(1), NoLink)>>)}

DrawnMembers ==
    {StructMember(1, PrimitiveField(p), Numeric(0), NoLink) :
        p \in {"Bool", "U8", "I16", "F32", "U64", "I128"}}
    \cup {StructMember(1, EmptyField, Numeric(0), NoLink)}
    \cup {StructMember(1, UserDefinedField("Item"), Numeric(0), link) : link \in DrawnLinks}
    \cup {StructMember(1, ArrayField(ArrayPrimitive(p), size), Numeric(0), NoLink) :
            p \in {"U8", "U32"}, size \in DrawnArraySizes}
    \cup {StructMember(1, ArrayField(ArrayUserDefined("Item"), size), Numeric(0), link) :
            link \in DrawnLinks, size \in DrawnArraySizes}

InitMember ==
    /\ pc = "init"
    /\ \E member \in DrawnMembers :
          struct_definition = [name |-> "Message", members |-> <<member>>]
    /\ configurations = Unused
    /\ enum_definition = Unused
    /\ bitfield_definition = Unused
    /\ primitive = Unused
    /\ file_descriptions = Unused
    /\ build = Unused
    /\ numeric_literal = Unused
    /\ c_configurations = Unused
    /\ file_index = Unused
    /\ output_files = Unused
    /\ result = Unused

CSize ==
    /\ pc = "init"
    /\ pc' = "c_size"
    /\ result' = c_size(struct_definition.members[1])
    /\ UNCHANGED <<configurations, struct_definition, enum_definition,
                   bitfield_definition, primitive, file_descriptions, build,
                   numeric_literal, c_configurations, file_index, output_files>>

NextMember == CSize

SpecMember == InitMember /\ [][NextMember]_vars

DrawnMember == struct_definition.members[1]

\* A user-defined member, or an array of user-defined elements, without a
\* definition link; or one linked to a struct that holds such a member.
RECURSIVE Unlinked(_)
Unlinked(member) ==
    /\ \/ member.data_type.tag = "UserDefined"
       \/ member.data_type.tag = "Array" /\ member.data_type.array_type.tag = "UserDefined"
    /\ \/ member.user_definition_link.tag = "NoLink"
       \/ /\ member.user_definition_link.tag = "StructLink"
          /\ \E k \in 1..Len(member.user_definition_link.members) :
                Unlinked(member.user_definition_link.members[k])

\* The array size of the member is a literal or a define with a positive
\* integer literal as value.
IntegerCount(member) ==
    \/ member.data_type.array_size.tag = "Integer"
    \/ /\ member.data_type.array_size.define.tag = "NumericLiteral"
       /\ member.data_type.array_size.define.literal.kind = "PositiveInteger"

\* The element count of an array member with an integer count; 1 otherwise.
ElementCount(member) ==
    IF member.data_type.tag # "Array" THEN 1
    ELSE IF member.data_type.array_size.tag = "Integer"
         THEN member.data_type.array_size.value
         ELSE BytesValue(member.data_type.array_size.define.literal.bytes)

\* The size of one element: of the primitive, of the backing type of the
\* linked enum or bitfield, or the sum over the members of the linked struct.
ElementSize(member) ==
    LET type == IF member.data_type.tag = "Array" THEN member.data_type.array_type
                ELSE member.data_type
        link == member.user_definition_link
    IN  CASE type.tag = "Empty" -> 0
          [] type.tag = "Primitive" -> Primitive_c_size(type.primitive)
          [] link.tag \in {"BitfieldLink", "EnumLink"} -> Primitive_c_size(link.backing_type)
          [] link.tag = "StructLink" -> PrefixSum(link.members, Len(link.members))
          [] OTHER -> 0

\* The array size of the member resolves to something else than a positive
\* integer.
NoPositiveCount(member) ==
    /\ member.data_type.tag = "Array"
    /\ ~IntegerCount(member) \/ ElementCount(member) = 0

\* C24: c_size fails with MalformedSource whenever a user-defined member or
\* array element has no definition link and whenever the size of an array is
\* no positive integer (a zero, a negative, float or boolean constant, a
\* define without value); in every other case it returns the element size
\* times the element count, which is at least 1.
C24_SizeOrMalformed ==
    pc = "c_size" =>
        IF Unlinked(DrawnMember) \/ NoPositiveCount(DrawnMember)
        THEN result = Err("MalformedSource")
        ELSE /\ result = Ok(ElementSize(DrawnMember) * ElementCount(DrawnMember))
             /\ result.value >= 1

\* What holds of c_size: it fails with MalformedSource exactly for an
\* unlinked member and for an array whose size is no integer; otherwise it
\* returns the element size times the element count, which can be 0.
C24_SizeOrMalformedAllowingZero ==
    pc = "c_size" =>
        IF Unlinked(DrawnMember)
              \/ (DrawnMember.data_type.tag = "Array" /\ ~IntegerCount(DrawnMember))
        THEN result = Err("MalformedSource")
        ELSE result = Ok(ElementSize(DrawnMember) * ElementCount(DrawnMember))

\* An array of bytes of length 0 resolves to the size 0.
C24_ZeroLengthArray ==
    /\ pc = "c_size"
    /\ DrawnMember.data_type = ArrayField(ArrayPrimitive("U8"), ArraySizeInteger(0))
    /\ result = Ok(0)

\* A member linked to a struct without members resolves to the size 0.
C24_ZeroSizeStruct ==
    /\ pc = "c_size"
    /\ DrawnMember.data_type.tag = "UserDefined"
    /\ DrawnMember.user_definition_link = StructLink("Unit", <<>>)
    /\ result = Ok(0)

----------------------------------------------------------------------------
(* The type specification: a primitive and a C standard are drawn, then    *)
(* one of the Primitive methods is applied.                                *)

TypeConfigurations ==
    [architecture : {"_64Bit"}, pack_data : {FALSE}, sort : {TRUE},
     pack_metadata : {FALSE}, c_standard : CStandards]

InitType ==
    /\ pc = "init"
    /\ configurations \in TypeConfigurations
    /\ primitive \in Primitives
    /\ struct_definition = Unused
    /\ enum_definition = Unused
    /\ bitfield_definition = Unused
    /\ file_descriptions = Unused
    /\ build = Unused
    /\ numeric_literal = Unused
    /\ c_configurations = Unused
    /\ file_index = Unused
    /\ output_files = Unused
    /\ result = Unused

ToCType ==
    /\ pc = "init"
    /\ pc' = "to_c_type"
    /\ result' = to_c_type(primitive, configurations.c_standard)
    /\ UNCHANGED <<configurations, struct_definition, enum_definition,
                   bitfield_definition, primitive, file_descriptions, build,
                   numeric_literal, c_configurations, file_index, output_files>>

PrimitiveCSize ==
    /\ pc = "init"
    /\ pc' = "c_size"
    /\ result' = Primitive_c_size(primitive)
    /\ UNCHANGED <<configurations, struct_definition, enum_definition,
                   bitfield_definition, primitive, file_descriptions, build,
                   numeric_literal, c_configurations, file_index, output_files>>

CInitializer ==
    /\ pc = "init"
    /\ pc' = "c_initializer"
    /\ result' = c_initializer(primitive, configurations.c_standard)
    /\ UNCHANGED <<configurations, struct_definition, enum_definition,
                   bitfield_definition, primitive, file_descriptions, build,
                   numeric_literal, c_configurations, file_index, output_files>>

CreateCVariable ==
    /\ pc = "init"
    /\ pc' = "create_c_variable"
    /\ result' = create_c_variable(primitive, "field", configurations.c_standard)
    /\ UNCHANGED <<configurations, struct_definition, enum_definition,
                   bitfield_definition, primitive, file_descriptions, build,
                   numeric_literal, c_configurations, file_index, output_files>>

NextType == ToCType \/ PrimitiveCSize \/ CInitializer \/ CreateCVariable

SpecType == InitType /\ [][NextType]_vars

\* C9: for C89 and C95 rendering the type of a signed or unsigned 64-bit
\* integer fails with SourceAndCStandardMismatch and yields no type name; from
\* C99 on it succeeds with int64_t / uint64_t.
C9_SixtyFourBitNeedsC99 ==
    (pc = "to_c_type" /\ primitive \in {"I64", "U64"}) =>
        IF configurations.c_standard \in {C89, C95}
        THEN ~result.ok /\ result.error = "SourceAndCStandardMismatch"
        ELSE result = Ok(IF primitive = "I64" THEN "int64_t" ELSE "uint64_t")

\* C9 witness: an unsigned 64-bit integer refused under C95.
C9_Witness ==
    /\ pc = "to_c_type" /\ primitive = "U64" /\ configurations.c_standard = C95
    /\ ~result.ok

\* C14: under every C standard the methods of a 128-bit primitive succeed:
\* its size is 16, its type is a 16-element byte array, its declaration is a
\* byte array of 16 elements and its initializer is the brace-zero literal.
C14_WideIntegersDegrade ==
    (primitive \in {"I128", "U128"}) =>
        /\ pc = "c_size" => result = 16
        /\ pc = "to_c_type" =>
              /\ result.ok
              /\ result.value = IF configurations.c_standard \in {C89, C95}
                                THEN "unsigned char[16]" ELSE "uint8_t[16]"
        /\ pc = "c_initializer" => result = "{ 0 }"
        /\ pc = "create_c_variable" =>
              /\ result.ok
              /\ result.value.array = 16
              /\ result.value.name = "field"
              /\ result.value.type = IF configurations.c_standard \in {C89, C95}
                                     THEN "unsigned char" ELSE "uint8_t"

\* C14 witness: a signed 128-bit integer declared under C89.
C14_Witness ==
    /\ pc = "create_c_variable" /\ primitive = "I128" /\ configurations.c_standard = C89
    /\ result.ok /\ result.value.array = 16

\* C14 witness: the initializer of an unsigned 128-bit integer.
C14_WitnessInitializer ==
    /\ pc = "c_initializer" /\ primitive = "U128" /\ result = "{ 0 }"

----------------------------------------------------------------------------
(* c_utilities.rs: CConfigurations::parse, the global sizing pass *)

\* FieldIndex::value() of rune_parser: the numeric slot; for the verifier the
\* value of RUNE_VERIFICATION_FIELD, 0x1F (runic_definitions.rs).  No drawn
\* input reads the value of a verifier index.
index_value(index) == IF index.tag = "Numeric" THEN index.value ELSE 31

\* The largest index among the members still to visit and the one so far.
RECURSIVE largest_index(_, _)
largest_index(members, largest_message_index) ==
    IF members = <<>> THEN largest_message_index
    ELSE largest_index(Tail(members),
                       IF index_value(Head(members).index) > largest_message_index
                       THEN index_value(Head(members).index)
                       ELSE largest_message_index)

\* The operator `?`: the value of an Ok goes on, an Err leaves at once.
Try(outcome, Continue(_)) == IF outcome.ok THEN Continue(outcome.value) ELSE outcome

\* The body of the loop of parse over the structs of one file; `seen` holds
\* amount_of_messages, largest_message_size and largest_message_index.
scan_struct(struct, config, seen) ==
    Try(estimate_size(struct, config),
        LAMBDA estimated_size :
            Ok([largest_message_size |->
                    IF estimated_size > seen.largest_message_size
                    THEN estimated_size ELSE seen.largest_message_size,
                largest_message_index |->
                    largest_index(struct.members, seen.largest_message_index),
                amount_of_messages |-> seen.amount_of_messages]))

\* The loop of parse over the structs of one file, first to last, left at the
\* first error; the list is walked as its first half, then its second half.
RECURSIVE scan_structs(_, _, _)
scan_structs(structs, config, seen) ==
    IF structs = <<>> THEN Ok(seen)
    ELSE IF Len(structs) = 1 THEN scan_struct(structs[1], config, seen)
    ELSE Try(scan_structs(SubSeq(structs, 1, Len(structs) \div 2), config, seen),
             LAMBDA first :
                scan_structs(SubSeq(structs, Len(structs) \div 2 + 1, Len(structs)),
                             config, first))

\* The loop of parse over the files.
RECURSIVE scan_files(_, _, _)
scan_files(files, config, seen) ==
    IF files = <<>> THEN Ok(seen)
    ELSE Try(scan_structs(Head(files).definitions.structs, config,
                          [seen EXCEPT !.amount_of_messages =
                                          @ + Len(Head(files).definitions.structs)]),
             LAMBDA scanned : scan_files(Tail(files), config, scanned))

\* The width that indexes the messages: 0..=0xFF, ..=0xFFFF, ..=0xFFFFFFFF, more.
\* (x <= 0xFFFFFFFF is written x \div 0x10000 <= 0xFFFF.)
parser_index_type_size(amount_of_messages) ==
    IF amount_of_messages <= 255 THEN 1
    ELSE IF amount_of_messages <= 65535 THEN 2
    ELSE IF amount_of_messages \div 65536 <= 65535 THEN 4
    ELSE 8

\* wide_message_type_size: message_size_type_size with 0x100 still in one byte.
wide_message_type_size(largest_message_size) ==
    IF largest_message_size = 0 THEN Err("ConfigurationError")
    ELSE IF largest_message_size <= 256 THEN Ok(1)
    ELSE IF largest_message_size <= 65535 THEN Ok(2)
    ELSE IF largest_message_size \div 65536 <= 65535 THEN Ok(4)
    ELSE Ok(8)

\* The width that holds the largest message size; size 0 is an error.
message_size_type_size(largest_message_size) ==
    IF largest_message_size = 0 THEN Err("ConfigurationError")
    ELSE IF largest_message_size <= 255 THEN Ok(1)
    ELSE IF largest_message_size <= 65535 THEN Ok(2)
    ELSE IF largest_message_size \div 65536 <= 65535 THEN Ok(4)
    ELSE Ok(8)

\* parse_any_size: parse with one byte of width for a largest size of 0.
parse_any_size(files, config) ==
    Try(scan_files(files, config,
                   [amount_of_messages |-> 0, largest_message_size |-> 0,
                    largest_message_index |-> 0]),
        LAMBDA seen :
            Try(IF seen.largest_message_size = 0 THEN Ok(1)
                ELSE message_size_type_size(seen.largest_message_size),
                LAMBDA size :
                    Ok([compiler_configurations |-> config,
                        field_size_type_size |-> size,
                        field_offset_type_size |-> size,
                        message_size_type_size |-> size,
                        parser_index_type_size |->
                            parser_index_type_size(seen.amount_of_messages),
                        largest_message_index |-> seen.largest_message_index])))

parse(files, config) ==
    Try(scan_files(files, config,
                   [amount_of_messages |-> 0, largest_message_size |-> 0,
                    largest_message_index |-> 0]),
        LAMBDA seen :
            Try(message_size_type_size(seen.largest_message_size),
                LAMBDA size :
                    Ok([compiler_configurations |-> config,
                        field_size_type_size |-> size,
                        field_offset_type_size |-> size,
                        message_size_type_size |-> size,
                        parser_index_type_size |->
                            parser_index_type_size(seen.amount_of_messages),
                        largest_message_index |-> seen.largest_message_index])))

----------------------------------------------------------------------------
(* The sizing specification: a list of files and a configuration are       *)
(* drawn, then CConfigurations::parse is applied.                          *)

\* Longest list of files drawn.
MaxFiles == 2

ByteArray(count) == ArrayField(ArrayPrimitive("U8"), ArraySizeInteger(count))

\* A struct with one member of the given data type.
OneMember(name, data_type) ==
    [name |-> name, members |-> <<StructMember(1, data_type, Numeric(0), NoLink)>>]

Tiny == OneMember("Tiny", PrimitiveField("U8"))

\* n copies of the struct s.
Copies(s, n) == [i \in 1..n |-> s]

FileOf(structs) == [name |-> "file", relative_path |-> "",
                    definitions |-> [structs |-> structs]]

\* The files the lists are drawn from: none, one or two structs around the
\* bounds of the widths, a struct of size 0, one that does not resolve, one
\* whose estimate depends on the configuration, and files of 127 and of 128
\* structs, so that two files hold 254, 255 or 256 structs.
FileKinds == <<
    FileOf(<<>>),
    FileOf(<<Tiny>>),
    FileOf(<<OneMember("Edge", ByteArray(255))>>),
    FileOf(<<OneMember("Over", ByteArray(256))>>),
    FileOf(<<OneMember("Frame", ByteArray(300)), Tiny>>),
    FileOf(<<OneMember("Page", ByteArray(65535))>>),
    FileOf(<<OneMember("Block", ByteArray(65536))>>),
    FileOf(<<[name |-> "Unit", members |-> <<>>]>>),
    FileOf(<<OneMember("Broken", UserDefinedField("Missing"))>>),
    FileOf(<<[name |-> "Mixed",
              members |-> <<StructMember(1, PrimitiveField("U8"), Numeric(0), NoLink),
                            StructMember(2, PrimitiveField("U64"), Numeric(2), NoLink),
                            StructMember(3, PrimitiveField("U16"), Numeric(1), NoLink)>>]>>),
    FileOf(Copies(Tiny, 127)),
    FileOf(Copies(Tiny, 128))
>>

InitSizing ==
    /\ pc = "init"
    /\ configurations \in LayoutConfigurations
    /\ \E n \in 0..MaxFiles :
          \E pick \in [1..n -> 1..Len(FileKinds)] :
             file_descriptions = [i \in 1..n |-> FileKinds[pick[i]]]
    /\ struct_definition = Unused
    /\ enum_definition = Unused
    /\ bitfield_definition = Unused
    /\ primitive = Unused
    /\ build = Unused
    /\ numeric_literal = Unused
    /\ c_configurations = Unused
    /\ file_index = Unused
    /\ output_files = Unused
    /\ result = Unused

Parse ==
    /\ pc = "init"
    /\ pc' = "parse"
    /\ result' = parse(file_descriptions, configurations)
    /\ UNCHANGED <<configurations, struct_definition, enum_definition,
                   bitfield_definition, primitive, file_descriptions, build,
                   numeric_literal, c_configurations, file_index, output_files>>

NextSizing == Parse

SpecSizing == InitSizing /\ [][NextSizing]_vars

\* All structs of all files, in order.
RECURSIVE AllStructs(_)
AllStructs(files) ==
    IF files = <<>> THEN <<>>
    ELSE Head(files).definitions.structs \o AllStructs(Tail(files))

\* The largest of the estimated sizes of the drawn structs.
LargestEstimate ==
    LET all == AllStructs(file_descriptions)
        sizes == {estimate_size(all[i], configurations).value : i \in 1..Len(all)} \cup {0}
    IN  CHOOSE x \in sizes : \A y \in sizes : y <= x

Widths == {1, 2, 4, 8}

\* An unsigned integer of w bytes holds v (v below 2^31).
Holds(w, v) ==
    CASE w = 1 -> v < 256
      [] w = 2 -> v < 65536
      [] w = 4 -> TRUE
      [] w = 8 -> TRUE

SmallestWidth(v) == CHOOSE w \in Widths : Holds(w, v) /\ \A u \in Widths : Holds(u, v) => w <= u

\* C8: parse picks, for the struct count and for the largest estimated size,
\* the smallest width of 1, 2, 4, 8 bytes whose unsigned range holds the
\* value, and sets the field-offset and field-size widths to the message-size
\* width; a largest size of 300 with 2 structs gives widths 2 and 1.
C8_SmallestWidths ==
    (pc = "parse" /\ result.ok) =>
        LET count == Len(AllStructs(file_descriptions))
        IN  /\ result.value.parser_index_type_size = SmallestWidth(count)
            /\ result.value.message_size_type_size = SmallestWidth(LargestEstimate)
            /\ result.value.field_offset_type_size = result.value.message_size_type_size
            /\ result.value.field_size_type_size = result.value.message_size_type_size
            /\ (LargestEstimate = 300 /\ count = 2) =>
                  /\ result.value.message_size_type_size = 2
                  /\ result.value.parser_index_type_size = 1

\* C8 witness: 256 structs need a 2-byte index, a largest size of 1 one byte.
C8_Witness ==
    /\ pc = "parse" /\ result.ok
    /\ Len(AllStructs(file_descriptions)) = 256
    /\ LargestEstimate = 1
    /\ result.value.parser_index_type_size = 2
    /\ result.value.message_size_type_size = 1

\* C8 witness of the stated example: one struct of 300 bytes, 2 structs in all.
C8_Example ==
    /\ pc = "parse" /\ result.ok
    /\ Len(AllStructs(file_descriptions)) = 2
    /\ LargestEstimate = 300
    /\ result.value.message_size_type_size = 2
    /\ result.value.parser_index_type_size = 1

\* Every drawn struct has an estimate.
EveryEstimateSucceeds ==
    \A i \in 1..Len(AllStructs(file_descriptions)) :
        estimate_size(AllStructs(file_descriptions)[i], configurations).ok

\* C18: parse returns ConfigurationError, and no sizing value, exactly when
\* the largest estimated struct size over all files is 0, an input without
\* structs included; for a largest size of 1 or more it succeeds, provided
\* every estimate succeeded.
C18_ZeroIsFatal ==
    pc = "parse" =>
        /\ EveryEstimateSucceeds =>
              /\ LargestEstimate = 0 => result = Err("ConfigurationError")
              /\ LargestEstimate >= 1 => result.ok
        /\ result.error = "ConfigurationError" =>
              EveryEstimateSucceeds /\ LargestEstimate = 0

\* C18 witness: two files whose only struct has no members.
C18_Witness ==
    /\ pc = "parse"
    /\ Len(file_descriptions) = 2
    /\ Len(AllStructs(file_descriptions)) = 1
    /\ AllStructs(file_descriptions)[1].members = <<>>
    /\ result = Err("ConfigurationError")

\* C18 witness: no files at all.
C18_WitnessNoStructs ==
    /\ pc = "parse" /\ file_descriptions = <<>>
    /\ result = Err("ConfigurationError")

\* C18 witness: a largest estimate of exactly 1 succeeds.
C18_WitnessOne ==
    /\ pc = "parse" /\ EveryEstimateSucceeds /\ LargestEstimate = 1
    /\ Len(AllStructs(file_descriptions)) = 2
    /\ result.ok /\ result.value.message_size_type_size = 1

----------------------------------------------------------------------------
(* c_utilities.rs: names and numeric literals; header.rs: output_enum *)

\* A name is the sequence of its characters.
LowerCase == <<"a", "b", "c", "d", "e", "f", "g", "h", "i", "j", "k", "l", "m",
               "n", "o", "p", "q", "r", "s", "t", "u", "v", "w", "x", "y", "z">>
UpperCase == <<"A", "B", "C", "D", "E", "F", "G", "H", "I", "J", "K", "L", "M",
               "N", "O", "P", "Q", "R", "S", "T", "U", "V", "W", "X", "Y", "Z">>

is_ascii_uppercase(letter) == \E i \in 1..Len(UpperCase) : UpperCase[i] = letter

to_ascii_uppercase(letter) ==
    IF \E i \in 1..Len(LowerCase) : LowerCase[i] = letter
    THEN UpperCase[CHOOSE i \in 1..Len(LowerCase) : LowerCase[i] = letter]
    ELSE letter

to_ascii_lowercase(letter) ==
    IF is_ascii_uppercase(letter)
    THEN LowerCase[CHOOSE i \in 1..Len(UpperCase) : UpperCase[i] = letter]
    ELSE letter

\* The letters i..Len(pascal) of the name, each in the given case, with an
\* underscore before every upper-case letter but the first letter.
RECURSIVE pascal_to_uppercase_from(_, _)
pascal_to_uppercase_from(pascal, i) ==
    IF i > Len(pascal) THEN <<>>
    ELSE (IF i # 1 /\ is_ascii_uppercase(pascal[i]) THEN <<"_">> ELSE <<>>)
         \o <<to_ascii_uppercase(pascal[i])>> \o pascal_to_uppercase_from(pascal, i + 1)

\* NamedVariable to NAMED_VARIABLE
pascal_to_uppercase(pascal) == pascal_to_uppercase_from(pascal, 1)

RECURSIVE pascal_to_snake_case_from(_, _)
pascal_to_snake_case_from(pascal, i) ==
    IF i > Len(pascal) THEN <<>>
    ELSE (IF i # 1 /\ is_ascii_uppercase(pascal[i]) THEN <<"_">> ELSE <<>>)
         \o <<to_ascii_lowercase(pascal[i])>> \o pascal_to_snake_case_from(pascal, i + 1)

\* NamedVariable to named_variable
pascal_to_snake_case(pascal) == pascal_to_snake_case_from(pascal, 1)

\* u64::leading_zeros() / 8: the number of leading zero bytes.
RECURSIVE leading_zero_bytes(_)
leading_zero_bytes(bytes) ==
    IF bytes = <<>> \/ Head(bytes) # 0 THEN 0
    ELSE 1 + leading_zero_bytes(Tail(bytes))

\* narrow_requires_size: requires_size with two bytes for five leading zero bytes.
narrow_requires_size(literal) ==
    IF literal.kind = "Boolean" THEN 1
    ELSE LET leading_zeroes == leading_zero_bytes(literal.bytes)
         IN  IF leading_zeroes < 4 THEN 8
             ELSE IF leading_zeroes < 5 THEN 4
             ELSE IF leading_zeroes < 7 THEN 2
             ELSE 1

\* NumericLiteral::requires_size: the bytes the literal needs.
requires_size(literal) ==
    IF literal.kind = "Boolean" THEN 1
    ELSE LET leading_zeroes == leading_zero_bytes(literal.bytes)
         IN  IF leading_zeroes < 4 THEN 8
             ELSE IF leading_zeroes < 6 THEN 4
             ELSE IF leading_zeroes < 7 THEN 2
             ELSE 1

\* is_zero of output_enum: false, 0, or a float that compares equal to 0.0
\* (plus or minus zero).
is_zero(literal) ==
    IF literal.kind = "Float"
    THEN \A i \in 2..8 : literal.bytes[i] = 0 /\ literal.bytes[1] \in {0, 128}
    ELSE \A i \in 1..8 : literal.bytes[i] = 0

\* EnumMember, EnumDefinition
EnumMember(identifier, value) == [identifier |-> identifier, value |-> value]
EnumDefinition(name, backing_type, members) ==
    [name |-> name, backing_type |-> backing_type, members |-> members]

\* needs_backing_value after the members 1..i have been printed.
RECURSIVE needs_backing_value(_, _, _)
needs_backing_value(definition, allow_backing_type, i) ==
    IF i = 0 THEN ~allow_backing_type
    ELSE /\ needs_backing_value(definition, allow_backing_type, i - 1)
         /\ requires_size(definition.members[i].value) # Primitive_c_size(definition.backing_type)

\* initializer_value after the members 1..i have been printed.
RECURSIVE initializer_value(_, _)
initializer_value(definition, i) ==
    IF i = 0 THEN <<"0">>
    ELSE LET before == initializer_value(definition, i - 1)
         IN  IF is_zero(definition.members[i].value) /\ before = <<"0">>
             THEN pascal_to_uppercase(definition.members[i].identifier)
             ELSE before

\* The line printed for member i.
enum_line(definition, allow_backing_type, i) ==
    [name |-> pascal_to_uppercase(definition.members[i].identifier),
     value |-> definition.members[i].value,
     ending |-> IF i = Len(definition.members)
                   /\ ~needs_backing_value(definition, allow_backing_type, i)
                THEN "" ELSE ","]

\* short_reserve_value: the table with the four-byte entry two bytes short.
short_reserve_value(size) ==
    CASE size = 0 -> Ok(<<0>>)
      [] size = 1 -> Ok(<<255>>)
      [] size = 2 -> Ok(<<255, 255>>)
      [] size = 4 -> Ok(<<255, 255>>)
      [] size = 8 -> Ok(<<255, 255, 255, 255, 255, 255, 255, 255>>)
      [] OTHER -> Panic

\* The value of the _SIZE_RESERVE_VALUE enumerator, as its bytes: "0", "0xFF",
\* "0xFFFF", "0xFFFFFFFF", "0xFFFFFFFFFFFFFFFF"; unreachable! otherwise.
reserve_value(size) ==
    CASE size = 0 -> Ok(<<0>>)
      [] size = 1 -> Ok(<<255>>)
      [] size = 2 -> Ok(<<255, 255>>)
      [] size = 4 -> Ok(<<255, 255, 255, 255>>)
      [] size = 8 -> Ok(<<255, 255, 255, 255, 255, 255, 255, 255>>)
      [] OTHER -> Panic

NoReserve == [emitted |-> FALSE]
Reserve(name, type, value) ==
    [emitted |-> TRUE, name |-> name, type |-> type, value |-> value]

\* The enumerator appended after the members, if one is needed.
size_reserve(definition, allow_backing_type, c_standard) ==
    IF ~needs_backing_value(definition, allow_backing_type, Len(definition.members))
    THEN Ok(NoReserve)
    ELSE Try(to_c_type(definition.backing_type, c_standard),
             LAMBDA type :
                Try(reserve_value(Primitive_c_size(definition.backing_type)),
                    LAMBDA value :
                        Ok(Reserve(pascal_to_uppercase(definition.name)
                                      \o <<"_", "S", "I", "Z", "E", "_", "R", "E", "S", "E", "R",
                                           "V", "E", "_", "V", "A", "L", "U", "E">>,
                                   type, value))))

\* The enum as output_enum prints it: the typedef line with the declared
\* backing type (if the standard has one), a line per member, the reserve
\* enumerator, the closing line and the initializer define.
output_enum(configurations_c, definition) ==
    LET c_standard == configurations_c.compiler_configurations.c_standard
        allow_backing_type == allows_enum_backing_type(c_standard)
    IN  Try(IF allow_backing_type THEN to_c_type(definition.backing_type, c_standard)
            ELSE Ok(""),
            LAMBDA backing :
                Try(size_reserve(definition, allow_backing_type, c_standard),
                    LAMBDA reserve :
                        Ok([enum_name |-> pascal_to_snake_case(definition.name),
                            backing |-> backing,
                            members |-> [i \in 1..Len(definition.members) |->
                                            enum_line(definition, allow_backing_type, i)],
                            reserve |-> reserve,
                            initializer |->
                                initializer_value(definition, Len(definition.members))])))

----------------------------------------------------------------------------
(* The enum specification: an enum and a C standard are drawn, then        *)
(* output_enum is applied.                                                 *)

\* Most members of a drawn enum.
MaxEnumMembers == 2

\* The configurations parse gives for a file with one one-byte struct.
CConfigurationsOf(config) == parse(<<FileOf(<<Tiny>>)>>, config).value

\* The literals the members are drawn from: integers at both sides of the
\* one-, two- and four-byte bounds, and the other kinds of literal.
Literals == <<
    PositiveInteger(Small(0, 0)),
    PositiveInteger(Small(0, 255)),
    PositiveInteger(Small(1, 0)),
    PositiveInteger(Small(255, 255)),
    PositiveInteger(<<0, 0, 0, 0, 0, 1, 0, 0>>),
    PositiveInteger(<<0, 0, 0, 0, 255, 255, 255, 255>>),
    PositiveInteger(<<0, 0, 0, 1, 0, 0, 0, 0>>),
    PositiveInteger(<<255, 255, 255, 255, 255, 255, 255, 255>>),
    NegativeInteger(<<255, 255, 255, 255, 255, 255, 255, 255>>),
    BooleanLiteral(TRUE),
    BooleanLiteral(FALSE),
    FloatLiteral(<<63, 240, 0, 0, 0, 0, 0, 0>>),
    FloatLiteral(<<128, 0, 0, 0, 0, 0, 0, 0>>)
>>

EnumIdentifiers == <<
    <<"R", "e", "d">>,
    <<"D", "a", "r", "k", "R", "e", "d">>,
    <<"O", "f", "f">>
>>

InitEnum ==
    /\ pc = "init"
    /\ configurations \in TypeConfigurations
    /\ \E n \in 0..MaxEnumMembers, backing_type \in Primitives :
          \E pick \in [1..n -> 1..Len(Literals)] :
             enum_definition =
                EnumDefinition(<<"L", "a", "m", "p", "C", "o", "l", "o", "r">>, backing_type,
                               [i \in 1..n |-> EnumMember(EnumIdentifiers[i], Literals[pick[i]])])
    /\ struct_definition = Unused
    /\ bitfield_definition = Unused
    /\ primitive = Unused
    /\ file_descriptions = Unused
    /\ build = Unused
    /\ numeric_literal = Unused
    /\ c_configurations = Unused
    /\ file_index = Unused
    /\ output_files = Unused
    /\ result = Unused

OutputEnum ==
    /\ pc = "init"
    /\ pc' = "output_enum"
    /\ result' = output_enum(CConfigurationsOf(configurations), enum_definition)
    /\ UNCHANGED <<configurations, struct_definition, enum_definition,
                   bitfield_definition, primitive, file_descriptions, build,
                   numeric_literal, c_configurations, file_index, output_files>>

NextEnum == OutputEnum

SpecEnum == InitEnum /\ [][NextEnum]_vars

IntegerPrimitives == {"I8", "U8", "I16", "U16", "I32", "U32", "I64", "U64", "I128", "U128"}

\* The smallest of 1, 2, 4, 8 bytes that holds the 64 bits of the literal;
\* a boolean takes one byte.
RequiredWidth(literal) ==
    IF literal.kind = "Boolean" THEN 1
    ELSE CHOOSE w \in Widths :
            /\ \A i \in 1..(8 - w) : literal.bytes[i] = 0
            /\ \A u \in Widths : (\A i \in 1..(8 - u) : literal.bytes[i] = 0) => w <= u

\* The number after the one the bytes stand for, most significant byte first.
RECURSIVE Successor(_)
Successor(bytes) ==
    IF bytes = <<>> THEN <<1>>
    ELSE IF bytes[Len(bytes)] < 255
         THEN SubSeq(bytes, 1, Len(bytes) - 1) \o <<bytes[Len(bytes)] + 1>>
         ELSE Successor(SubSeq(bytes, 1, Len(bytes) - 1)) \o <<0>>

\* 2^(8n), most significant byte first.
TwoToThe8Times(n) == <<1>> \o [i \in 1..n |-> 0]

C6_WitnessReached ==
    /\ pc = "output_enum" /\ result.ok
    /\ configurations.c_standard = C99
    /\ enum_definition.backing_type = "I32"
    /\ \E i \in 1..Len(enum_definition.members) :
          RequiredWidth(enum_definition.members[i].value) = 4
    /\ ~result.value.reserve.emitted

----------------------------------------------------------------------------
(* The literal specification: a numeric literal is drawn, then              *)
(* requires_size is applied.                                                *)

\* The values the bytes of a drawn literal take.
LiteralBytes == {0, 1, 255}

InitLiteral ==
    /\ pc = "init"
    /\ \/ \E bytes \in [1..8 -> LiteralBytes] :
              numeric_literal \in {PositiveInteger(bytes), NegativeInteger(bytes),
                                   FloatLiteral(bytes)}
       \/ numeric_literal \in {BooleanLiteral(TRUE), BooleanLiteral(FALSE)}
    /\ configurations = Unused
    /\ struct_definition = Unused
    /\ enum_definition = Unused
    /\ bitfield_definition = Unused
    /\ primitive = Unused
    /\ file_descriptions = Unused
    /\ build = Unused
    /\ c_configurations = Unused
    /\ file_index = Unused
    /\ output_files = Unused
    /\ result = Unused

RequiresSize ==
    /\ pc = "init"
    /\ pc' = "requires_size"
    /\ result' = requires_size(numeric_literal)
    /\ UNCHANGED <<configurations, struct_definition, enum_definition,
                   bitfield_definition, primitive, file_descriptions, build,
                   numeric_literal, c_configurations, file_index, output_files>>

NextLiteral == RequiresSize

SpecLiteral == InitLiteral /\ [][NextLiteral]_vars

\* The number of leading zero bytes of the 64 bits of a literal.
LeadingZeroBytes(literal) ==
    Cardinality({k \in 1..8 : \A i \in 1..k : literal.bytes[i] = 0})

\* C20: requires_size gives 8 for 0-3 leading zero bytes of the 64-bit value,
\* 4 for 4-5, 2 for 6 and 1 for 7 or more (the value 0 included); a boolean
\* gives 1; so for a positive integer v the result is the smallest of 1, 2,
\* 4, 8 with v < 2^(8 * result).
C20_WidthByLeadingZeroBytes ==
    pc = "requires_size" =>
        /\ numeric_literal.kind = "Boolean" => result = 1
        /\ numeric_literal.kind # "Boolean" =>
              result = CASE LeadingZeroBytes(numeric_literal) \in 0..3 -> 8
                         [] LeadingZeroBytes(numeric_literal) \in 4..5 -> 4
                         [] LeadingZeroBytes(numeric_literal) = 6 -> 2
                         [] LeadingZeroBytes(numeric_literal) \in 7..8 -> 1
        /\ numeric_literal.kind = "PositiveInteger" =>
              result = RequiredWidth(numeric_literal)

\* C20 witness: the three-byte integer 0x010000 needs four bytes.
C20_Witness ==
    /\ pc = "requires_size"
    /\ numeric_literal = PositiveInteger(<<0, 0, 0, 0, 0, 1, 0, 0>>)
    /\ result = 4

\* C20 witness: the integer 0 needs one byte.
C20_WitnessZero ==
    /\ pc = "requires_size"
    /\ numeric_literal = PositiveInteger(<<0, 0, 0, 0, 0, 0, 0, 0>>)
    /\ result = 1

----------------------------------------------------------------------------
(* c_utilities.rs: FieldType::create_c_variable; header.rs: output_struct *)

\* ArrayType::to_c_type: the element type of an array; a user type is its
\* snake-case name with the suffix _t.
array_to_c_type(array_type, c_standard) ==
    IF array_type.tag = "Primitive"
    THEN to_c_type(array_type.primitive, c_standard)
    ELSE Ok([snake |-> pascal_to_snake_case(array_type.name), suffix |-> "_t"])

\* FieldType::create_c_variable: type, name and array size of a declaration
\* (the spacing is always 0 in output_struct).
field_create_c_variable(data_type, name, c_standard) ==
    CASE data_type.tag = "Primitive" -> create_c_variable(data_type.primitive, name, c_standard)
      [] data_type.tag = "UserDefined" ->
            Ok([type |-> [snake |-> pascal_to_snake_case(data_type.name), suffix |-> "_t"],
                name |-> name, array |-> 0])
      [] data_type.tag = "Array" ->
            Try(array_to_c_type(data_type.array_type, c_standard),
                LAMBDA type : Ok([type |-> type, name |-> name,
                                  array |-> data_type.array_size]))
      [] data_type.tag = "Empty" -> Err("LogicError")

\* The member lines of output_struct from the i-th sorted member on.
RECURSIVE struct_lines(_, _, _)
struct_lines(sorted_member_list, i, c_standard) ==
    IF i > Len(sorted_member_list) THEN Ok(<<>>)
    ELSE Try(field_create_c_variable(sorted_member_list[i].data_type,
                                     pascal_to_snake_case(sorted_member_list[i].identifier),
                                     c_standard),
             LAMBDA line :
                 Try(struct_lines(sorted_member_list, i + 1, c_standard),
                     LAMBDA rest : Ok(<<line>> \o rest)))

\* The member list output_struct prints: struct_definition.sort_members(),
\* whatever the sort flag says.
printed_order(configurations_c, definition) ==
    sort_members(definition, configurations_c.compiler_configurations)

\* output_struct: the typedef of a struct, one line per member of the sorted
\* list, and the sorted list it returns.
output_struct(configurations_c, definition) ==
    Try(printed_order(configurations_c, definition),
        LAMBDA sorted_member_list :
            Try(struct_lines(sorted_member_list, 1,
                             configurations_c.compiler_configurations.c_standard),
                LAMBDA lines :
                    Ok([struct_name |-> pascal_to_snake_case(definition.name),
                        lines |-> lines,
                        sorted_member_list |-> sorted_member_list])))

----------------------------------------------------------------------------
(* The struct specification: a struct with named members and a             *)
(* configuration are drawn, then output_struct is applied.                 *)

\* The kinds of member of the drawn structs.
StructKinds == <<
    [data_type |-> PrimitiveField("U8"), link |-> NoLink],
    [data_type |-> PrimitiveField("U16"), link |-> NoLink],
    [data_type |-> PrimitiveField("U64"), link |-> NoLink],
    [data_type |-> ArrayField(ArrayPrimitive("U8"), ArraySizeInteger(3)), link |-> NoLink],
    [data_type |-> UserDefinedField(<<"I", "n", "n", "e", "r">>),
     link |-> StructLink(<<"I", "n", "n", "e", "r">>,
                         <<StructMember(<<"X">>, PrimitiveField("U32"), Numeric(0), NoLink)>>)],
    [data_type |-> UserDefinedField(<<"U", "n", "i", "t">>),
     link |-> StructLink(<<"U", "n", "i", "t">>, <<>>)]
>>

\* The name of the i-th declared member.
StructIdentifier(i) == <<"F", "i", "e", "l", "d">> \o [k \in 1..i |-> "X"]

StructConfigurations ==
    [architecture : Architectures, pack_data : BOOLEAN, sort : BOOLEAN,
     pack_metadata : {FALSE}, c_standard : {C89, C99}]

InitStruct ==
    /\ pc = "init"
    /\ configurations \in StructConfigurations
    /\ \E n \in 0..MaxMembers :
          \E pick \in [1..n -> 1..Len(StructKinds)] :
             struct_definition =
                [name |-> <<"M", "e", "s", "s", "a", "g", "e">>,
                 members |-> [i \in 1..n |->
                                 StructMember(StructIdentifier(i), StructKinds[pick[i]].data_type,
                                              Numeric(i - 1), StructKinds[pick[i]].link)]]
    /\ enum_definition = Unused
    /\ bitfield_definition = Unused
    /\ primitive = Unused
    /\ file_descriptions = Unused
    /\ build = Unused
    /\ numeric_literal = Unused
    /\ c_configurations = Unused
    /\ file_index = Unused
    /\ output_files = Unused
    /\ result = Unused

OutputStruct ==
    /\ pc = "init"
    /\ pc' = "output_struct"
    /\ result' = output_struct(CConfigurationsOf(configurations), struct_definition)
    /\ UNCHANGED <<configurations, struct_definition, enum_definition,
                   bitfield_definition, primitive, file_descriptions, build,
                   numeric_literal, c_configurations, file_index, output_files>>

NextStruct == OutputStruct

SpecStruct == InitStruct /\ [][NextStruct]_vars

\* The identifiers of a member list, in order.
IdentifiersOf(list) == [i \in 1..Len(list) |-> list[i].identifier]

\* C13: the member order estimate_size walks is the member order of the
\* emitted struct declaration: the sort_members order when sort is enabled,
\* the declaration order unmodified when sort is disabled.
C13_OneOrder ==
    (pc = "output_struct" /\ result.ok) =>
        /\ IdentifiersOf(result.value.sorted_member_list)
              = IdentifiersOf(struct_list(struct_definition, configurations).value)
        /\ ~configurations.sort =>
              IdentifiersOf(result.value.sorted_member_list)
                = IdentifiersOf(struct_definition.members)

\* C13 restricted to the runs with sort enabled, where it holds.
C13_OneOrderWhenSorting ==
    (pc = "output_struct" /\ result.ok /\ configurations.sort) =>
        IdentifiersOf(result.value.sorted_member_list)
          = IdentifiersOf(struct_list(struct_definition, configurations).value)

\* A struct of a one-byte and an eight-byte member with sort disabled: the
\* estimate walks them as declared, the declaration has them swapped.
C13_Swapped ==
    /\ pc = "output_struct" /\ result.ok /\ ~configurations.sort
    /\ Len(struct_definition.members) = 2
    /\ IdentifiersOf(struct_list(struct_definition, configurations).value)
          = <<StructIdentifier(1), StructIdentifier(2)>>
    /\ IdentifiersOf(result.value.sorted_member_list)
          = <<StructIdentifier(2), StructIdentifier(1)>>
    /\ estimate_size(struct_definition, configurations).ok

----------------------------------------------------------------------------
(* header.rs: output_bitfield *)

\* The build profiles: integer overflow panics in a debug build and wraps in
\* a release build.
Builds == {"debug", "release"}

\* A u64 below 2^31 as its eight bytes, most significant first.
U64Bytes(n) ==
    <<0, 0, 0, 0, (n \div 16777216) % 256, (n \div 65536) % 256, (n \div 256) % 256, n % 256>>

\* a - b on u64 (a, b below 2^31): the difference, or for a < b the overflow
\* panic of a debug build or the wrapped value 2^64 - (b - a) of a release
\* build.
sub_u64(a, b, profile) ==
    IF a >= b THEN Ok(U64Bytes(a - b))
    ELSE IF profile = "debug" THEN Panic
    ELSE Ok([i \in 1..8 |-> 255 - U64Bytes(b - a - 1)[i]])

\* spaces(longest_name - length): the number of spaces; for longest_name <
\* length the subtraction overflows: a debug build panics there, a release
\* build wraps and spaces() pushes until the allocation fails.
spacing(longest_name, length) ==
    IF longest_name >= length THEN Ok(longest_name - length) ELSE Panic

\* BitSize (the size is a u64, kept as its eight bytes), BitfieldMember,
\* BitfieldDefinition
Signed(size) == [tag |-> "Signed", size |-> size]
Unsigned(size) == [tag |-> "Unsigned", size |-> size]
BitfieldMember(identifier, size, index) ==
    [identifier |-> identifier, size |-> size, index |-> index]
BitfieldDefinition(name, backing_type, members) ==
    [name |-> name, backing_type |-> backing_type, members |-> members]

\* any_integer_backing_type: backing_type with the 128-bit integers let
\* through as 64-bit ones.
any_integer_backing_type(p) ==
    CASE p \in {"I8", "U8"} -> Ok([unsigned |-> "U8", signed |-> "I8"])
      [] p \in {"I16", "U16"} -> Ok([unsigned |-> "U16", signed |-> "I16"])
      [] p \in {"I32", "U32"} -> Ok([unsigned |-> "U32", signed |-> "I32"])
      [] p \in {"I64", "U64", "I128", "U128"} -> Ok([unsigned |-> "U64", signed |-> "I64"])
      [] OTHER -> Err("MalformedSource")

\* The backing type with its unsigned and signed variants.
backing_type(p) ==
    CASE p \in {"I8", "U8"} -> Ok([unsigned |-> "U8", signed |-> "I8"])
      [] p \in {"I16", "U16"} -> Ok([unsigned |-> "U16", signed |-> "I16"])
      [] p \in {"I32", "U32"} -> Ok([unsigned |-> "U32", signed |-> "I32"])
      [] p \in {"I64", "U64"} -> Ok([unsigned |-> "U64", signed |-> "I64"])
      [] OTHER -> Err("MalformedSource")

\* total_size: the sum of the declared bit widths.
RECURSIVE total_size(_)
total_size(members) ==
    IF members = <<>> THEN 0
    ELSE BytesValue(Head(members).size.size) + total_size(Tail(members))

\* The members that declare the index i, in the order of the definition.
RECURSIVE with_index(_, _)
with_index(members, i) ==
    IF members = <<>> THEN <<>>
    ELSE (IF Head(members).index = i THEN <<Head(members)>> ELSE <<>>)
         \o with_index(Tail(members), i)

\* for i in 0..len: the members with the indices i, i + 1, ..., len - 1.
RECURSIVE ascending_from(_, _)
ascending_from(members, i) ==
    IF i >= Len(members) THEN <<>>
    ELSE with_index(members, i) \o ascending_from(members, i + 1)

\* for z in 0..len, i = len - 1 - z: the members with the indices i, ..., 0.
RECURSIVE descending_from(_, _)
descending_from(members, i) ==
    IF i < 0 THEN <<>>
    ELSE with_index(members, i) \o descending_from(members, i - 1)

little_endian_order(members, padding) == ascending_from(members, 0) \o <<padding>>

big_endian_order(members, padding) ==
    <<padding>> \o descending_from(members, Len(members) - 1)

\* longest_name over the members, starting from the padding's share.
RECURSIVE longest_name(_, _)
longest_name(members, longest) ==
    IF members = <<>> THEN longest
    ELSE longest_name(Tail(members),
                      IF Len(pascal_to_snake_case(Head(members).identifier)) > longest
                      THEN Len(pascal_to_snake_case(Head(members).identifier))
                      ELSE longest)

\* One printed line: the type, the name, the spaces after it and the width.
bitfield_line(member, types, c_standard, longest) ==
    Try(to_c_type(IF member.size.tag = "Signed" THEN types.signed ELSE types.unsigned,
                  c_standard),
        LAMBDA backing_string :
            Try(spacing(longest, Len(pascal_to_snake_case(member.identifier))),
                LAMBDA amount :
                    Ok([backing_string |-> backing_string,
                        signed |-> member.size.tag = "Signed",
                        member_name |-> pascal_to_snake_case(member.identifier),
                        spaces |-> amount,
                        bit_size |-> member.size.size])))

\* The lines of one order, first to last, left at the first failure.
RECURSIVE bitfield_lines(_, _, _, _, _)
bitfield_lines(order, types, c_standard, longest, printed) ==
    IF order = <<>> THEN Ok(printed)
    ELSE Try(bitfield_line(Head(order), types, c_standard, longest),
             LAMBDA line :
                bitfield_lines(Tail(order), types, c_standard, longest,
                               Append(printed, line)))

output_bitfield(configurations_c, definition, profile) ==
    LET c_standard == configurations_c.compiler_configurations.c_standard
    IN  Try(backing_type(definition.backing_type),
            LAMBDA types :
            Try(sub_u64(Primitive_c_size(definition.backing_type) * 8,
                        total_size(definition.members), profile),
                LAMBDA padding_size :
                LET padding == BitfieldMember(<<"p", "a", "d", "d", "i", "n", "g">>,
                                              Unsigned(padding_size), 0)
                    longest == longest_name(definition.members,
                                            IF padding_size = U64Bytes(0) THEN 0 ELSE 7)
                IN  Try(bitfield_lines(little_endian_order(definition.members, padding),
                                       types, c_standard, longest, <<>>),
                        LAMBDA little_endian :
                        Try(bitfield_lines(big_endian_order(definition.members, padding),
                                           types, c_standard, longest, <<>>),
                            LAMBDA big_endian :
                                Ok([bitfield_name |-> pascal_to_snake_case(definition.name),
                                    little_endian |-> little_endian,
                                    big_endian |-> big_endian,
                                    initializer |-> "0"])))))

----------------------------------------------------------------------------
(* The bitfield specification: a bitfield, a C standard and a build profile *)
(* are drawn, then output_bitfield is applied.                              *)

\* Most members of a drawn bitfield.
MaxBitfieldMembers == 2

BitfieldConfigurations ==
    [architecture : {"_64Bit"}, pack_data : {FALSE}, sort : {TRUE},
     pack_metadata : {FALSE}, c_standard : {C95, C99}]

\* The backing types drawn: both of one width, one of each other width, and
\* three that are no integers of at most 64 bits.
BitfieldBackings == {"I8", "U8", "U16", "I32", "U64", "Bool", "F64", "I128"}

\* The widths and signs the members are drawn from.
BitSizes == <<Unsigned(U64Bytes(1)), Signed(U64Bytes(1)),
              Unsigned(U64Bytes(7)), Signed(U64Bytes(7))>>

\* The names of the members, by position; the second is longer than "padding".
BitfieldIdentifiers == <<
    <<"O", "n">>,
    <<"I", "s", "E", "n", "a", "b", "l", "e", "d">>,
    <<"M", "o", "d", "e">>
>>

InitBitfield ==
    /\ pc = "init"
    /\ configurations \in BitfieldConfigurations
    /\ build \in Builds
    /\ \E n \in 0..MaxBitfieldMembers, backing \in BitfieldBackings :
          \E pick \in [1..n -> 1..Len(BitSizes)], index \in [1..n -> 0..n] :
             bitfield_definition =
                BitfieldDefinition(<<"F", "l", "a", "g", "s">>, backing,
                    [i \in 1..n |->
                        BitfieldMember(BitfieldIdentifiers[i], BitSizes[pick[i]], index[i])])
    /\ struct_definition = Unused
    /\ enum_definition = Unused
    /\ primitive = Unused
    /\ file_descriptions = Unused
    /\ numeric_literal = Unused
    /\ c_configurations = Unused
    /\ file_index = Unused
    /\ output_files = Unused
    /\ result = Unused

OutputBitfield ==
    /\ pc = "init"
    /\ pc' = "output_bitfield"
    /\ result' = output_bitfield(CConfigurationsOf(configurations), bitfield_definition, build)
    /\ UNCHANGED <<configurations, struct_definition, enum_definition,
                   bitfield_definition, primitive, file_descriptions, build,
                   numeric_literal, c_configurations, file_index, output_files>>

NextBitfield == OutputBitfield

SpecBitfield == InitBitfield /\ [][NextBitfield]_vars

\* The sum of the declared widths of the drawn bitfield.
DeclaredBits ==
    LET members == bitfield_definition.members
        Sum[i \in 0..Len(members)] ==
            IF i = 0 THEN 0 ELSE Sum[i - 1] + BytesValue(members[i].size.size)
    IN  Sum[Len(members)]

BackingBits == 8 * Primitive_c_size(bitfield_definition.backing_type)

IsPadding(line) == line.member_name = <<"p", "a", "d", "d", "i", "n", "g">>

\* C7: for a bitfield that output_bitfield accepts, the padding of the
\* little-endian order and that of the big-endian order have the same width,
\* the bits of the backing type less the sum of the declared widths; the
\* padding is the last member of the little-endian order and the first of the
\* big-endian order.
C7_PaddingWidth ==
    (pc = "output_bitfield" /\ result.ok) =>
        LET little == result.value.little_endian
            big == result.value.big_endian
        IN  /\ IsPadding(little[Len(little)])
            /\ IsPadding(big[1])
            /\ little[Len(little)].bit_size = big[1].bit_size
            /\ DeclaredBits <= BackingBits
            /\ big[1].bit_size = U64Bytes(BackingBits - DeclaredBits)

\* Where the declared widths fit the backing type, both paddings are the
\* bits left over.
PaddingWidthWhenFitting ==
    (pc = "output_bitfield" /\ result.ok /\ DeclaredBits <= BackingBits) =>
        LET little == result.value.little_endian
            big == result.value.big_endian
        IN  /\ IsPadding(little[Len(little)])
            /\ IsPadding(big[1])
            /\ little[Len(little)].bit_size = big[1].bit_size
            /\ big[1].bit_size = U64Bytes(BackingBits - DeclaredBits)

\* An accepted bitfield with a padding of 6 bits in both orders.
PaddingOfSixBits ==
    /\ pc = "output_bitfield" /\ result.ok
    /\ Len(bitfield_definition.members) = 2
    /\ DeclaredBits = 2 /\ BackingBits = 8
    /\ result.value.big_endian[1].bit_size = U64Bytes(6)
    /\ result.value.little_endian[3].bit_size = U64Bytes(6)

\* No two members of the drawn bitfield declare the same index.
DistinctBitIndices ==
    \A a, b \in 1..Len(bitfield_definition.members) :
        a # b => bitfield_definition.members[a].index # bitfield_definition.members[b].index

\* The names of the declared members by ascending declared index (the
\* indices being distinct).
AscendingDeclared ==
    LET members == bitfield_definition.members
        Rank(a) == 1 + Cardinality({b \in 1..Len(members) :
                                       members[b].index < members[a].index})
    IN  [k \in 1..Len(members) |->
            pascal_to_snake_case(
                members[CHOOSE a \in 1..Len(members) : Rank(a) = k].identifier)]

NamesOf(lines) == [k \in 1..Len(lines) |-> lines[k].member_name]

Reversed(list) == [k \in 1..Len(list) |-> list[Len(list) + 1 - k]]

\* C21: for every bitfield output_bitfield accepts (its indices distinct),
\* the little-endian listing is the declared members by ascending declared
\* index followed by the padding, the big-endian listing the padding
\* followed by the declared members by descending declared index; the one
\* is the reverse of the other and each holds every declared member once.
C21_BothOrders ==
    (pc = "output_bitfield" /\ result.ok /\ DistinctBitIndices) =>
        LET little == NamesOf(result.value.little_endian)
            big == NamesOf(result.value.big_endian)
            padding == <<"p", "a", "d", "d", "i", "n", "g">>
        IN  /\ little = AscendingDeclared \o <<padding>>
            /\ big = <<padding>> \o Reversed(AscendingDeclared)
            /\ big = Reversed(little)

\* The integer primitives a C bitfield can be backed by.
NativeIntegerPrimitives == IntegerPrimitives \ {"I128", "U128"}

\* C22 as stated: output_bitfield fails with MalformedSource exactly when
\* the backing type is not an integer primitive.
C22_RejectsNonIntegers ==
    pc = "output_bitfield" =>
        ((result = Err("MalformedSource"))
            <=> (bitfield_definition.backing_type \notin IntegerPrimitives))

\* C22: output_bitfield fails with MalformedSource exactly when the backing
\* type is not an integer primitive of 8, 16, 32 or 64 bits; with each of
\* those it goes on to the padding and the listings.
C22_RejectsAllButNativeIntegers ==
    pc = "output_bitfield" =>
        ((result = Err("MalformedSource"))
            <=> (bitfield_definition.backing_type \notin NativeIntegerPrimitives))

\* A bitfield backed by a boolean is refused, its members fitting a byte.
C22_Witness ==
    /\ pc = "output_bitfield"
    /\ bitfield_definition.backing_type = "Bool"
    /\ Len(bitfield_definition.members) = 2
    /\ DeclaredBits = 2
    /\ result = Err("MalformedSource")

\* A bitfield backed by a 64-bit integer is listed.
C22_WitnessAccepted ==
    /\ pc = "output_bitfield"
    /\ bitfield_definition.backing_type = "U64"
    /\ Len(bitfield_definition.members) = 2
    /\ result.ok

\* A bitfield backed by a 128-bit integer is refused.
C22_WideRefused ==
    /\ pc = "output_bitfield"
    /\ bitfield_definition.backing_type = "I128"
    /\ result = Err("MalformedSource")

\* C23: when the declared bit widths sum to more than the bits of the
\* backing type, output_bitfield fails; it emits no listing.
C23_OversizedFails ==
    (pc = "output_bitfield"
        /\ bitfield_definition.backing_type \in NativeIntegerPrimitives
        /\ DeclaredBits > BackingBits)
        => ~result.ok

\* With overflow checks on, an oversized bitfield ends in a panic.
C23_OversizedPanicsInDebug ==
    (build = "debug" /\ DeclaredBits > BackingBits) => C23_OversizedFails

\* Members of 7 and 7 bits on a backing type of 8 bits, overflow checks off:
\* both listings are emitted, with a padding of 2^64 - 6 bits.
C23_WrappedPadding ==
    /\ pc = "output_bitfield" /\ result.ok
    /\ build = "release"
    /\ DeclaredBits = 14 /\ BackingBits = 8
    /\ result.value.big_endian[1].bit_size = <<255, 255, 255, 255, 255, 255, 255, 250>>
    /\ result.value.little_endian[3].bit_size = <<255, 255, 255, 255, 255, 255, 255, 250>>

\* C21 for the bitfields whose n members declare the indices 0..n-1: there
\* it holds.
C21_WhenIndicesAreDense ==
    ({bitfield_definition.members[a].index : a \in 1..Len(bitfield_definition.members)}
        = 0..(Len(bitfield_definition.members) - 1))
        => C21_BothOrders

\* An accepted bitfield of two members with the indices 0 and 2: both
\* listings hold the first member and the padding only.
C21_MemberDropped ==
    /\ pc = "output_bitfield" /\ result.ok
    /\ Len(bitfield_definition.members) = 2
    /\ bitfield_definition.members[1].index = 0
    /\ bitfield_definition.members[2].index = 2
    /\ Len(result.value.little_endian) = 2
    /\ Len(result.value.big_endian) = 2

----------------------------------------------------------------------------
(* c_utilities.rs: index_empty, c_size_definition; source.rs: output_source *)

EmptyIdentifier == <<"(", "e", "m", "p", "t", "y", ")">>

\* index_byte: index_empty with a one-byte member in place of the empty one.
index_byte(index) ==
    IF index < 32
    THEN Ok(StructMember(EmptyIdentifier, PrimitiveField("U8"), Numeric(index), NoLink))
    ELSE Err("LogicError")

\* StructMember::index_empty: the member that fills a slot nobody declared.
index_empty(index) ==
    IF index < 32
    THEN Ok(StructMember(EmptyIdentifier, EmptyField, Numeric(index), NoLink))
    ELSE Err("LogicError")

\* sizeof(<type>) of a primitive or of a user definition.
SizeofPrimitive(type) == [form |-> "sizeof", primitive |-> type]
SizeofUserDefined(name) == [form |-> "sizeof_t", user_defined |-> name]

\* StructMember::c_size_definition: the size expression of the member.
c_size_definition(member, c_standard) ==
    CASE member.data_type.tag = "Primitive" ->
            Try(to_c_type(member.data_type.primitive, c_standard),
                LAMBDA type : Ok(SizeofPrimitive(type)))
      [] member.data_type.tag = "UserDefined" ->
            Ok(SizeofUserDefined(pascal_to_snake_case(member.data_type.name)))
      [] member.data_type.tag = "Array" ->
            Try(IF member.data_type.array_type.tag = "Primitive"
                THEN Try(to_c_type(member.data_type.array_type.primitive, c_standard),
                         LAMBDA type : Ok(SizeofPrimitive(type)))
                ELSE Ok(SizeofUserDefined(
                            pascal_to_snake_case(member.data_type.array_type.name))),
                LAMBDA type_string :
                    Ok([form |-> "product", element |-> type_string,
                        count |-> member.data_type.array_size]))
      [] member.data_type.tag = "Empty" -> Ok([form |-> "0"])

\* The slot a declared index stands for: the verifier is looked up as 0.
listed_index(index) == IF index.tag = "Verifier" THEN 0 ELSE index.value

\* highest_index over the members, starting from 0.
RECURSIVE highest_index(_, _)
highest_index(members, highest) ==
    IF members = <<>> THEN highest
    ELSE highest_index(Tail(members),
                       IF listed_index(Head(members).index) > highest
                       THEN listed_index(Head(members).index) ELSE highest)

has_verification(members) == \E i \in 1..Len(members) : members[i].index.tag = "Verifier"

\* descriptor_flags += 1 << shift on u32, the flags kept as the set of their
\* one bits: adding a bit that is set carries into the next one.  A carry out
\* of bit 31 panics in a debug build and is lost in a release build.
RECURSIVE add_bit(_, _, _)
add_bit(flags, bit, profile) ==
    IF bit > 31 THEN (IF profile = "debug" THEN Panic ELSE Ok(flags))
    ELSE IF bit \notin flags THEN Ok(flags \cup {bit})
    ELSE add_bit(flags \ {bit}, bit + 1, profile)

\* 1 << shift on u32: a shift of 32 or more panics in a debug build and is
\* taken modulo 32 in a release build.
add_flag(flags, shift, profile) ==
    IF shift > 31 /\ profile = "debug" THEN Panic
    ELSE add_bit(flags, shift % 32, profile)

\* The inner loop of one slot i: every listed member with the index i takes
\* the slot over; `slots` holds member, longest_member_name_size,
\* descriptor_list and descriptor_flags.
RECURSIVE find_member(_, _, _, _)
find_member(listed, i, slots, profile) ==
    IF listed = <<>> THEN Ok(slots)
    ELSE IF listed_index(Head(listed).index) # i
         THEN find_member(Tail(listed), i, slots, profile)
    ELSE LET member == Head(listed)
             length == Len(pascal_to_snake_case(member.identifier))
             found == [slots EXCEPT
                          !.member = member,
                          !.longest_member_name_size = IF length > @ THEN length ELSE @]
         IN  IF member.user_definition_link.tag = "StructLink"
             THEN Try(add_flag(slots.descriptor_flags, index_value(member.index), profile),
                      LAMBDA flags :
                         find_member(Tail(listed), i,
                            [found EXCEPT
                                !.descriptor_list =
                                    Append(@, pascal_to_snake_case(
                                                  member.user_definition_link.name)),
                                !.descriptor_flags = flags],
                            profile))
             ELSE find_member(Tail(listed), i, found, profile)

\* for i in 0..member_count: the slots i, i + 1, ... are filled in.
RECURSIVE index_sort(_, _, _, _, _)
index_sort(members, i, member_count, slots, profile) ==
    IF i >= member_count THEN Ok(slots)
    ELSE Try(index_empty(i),
             LAMBDA empty :
                Try(find_member(members, i, [slots EXCEPT !.member = empty], profile),
                    LAMBDA found :
                        index_sort(members, i + 1, member_count,
                                   [found EXCEPT !.index_sorted_members =
                                                    Append(@, found.member)],
                                   profile)))

\* One entry of the field_info table.
field_info(member, counter, struct_name, member_count, verified, longest, c_standard) ==
    Try(spacing(longest, Len(pascal_to_snake_case(member.identifier))),
        LAMBDA amount :
            Try(c_size_definition(member, c_standard),
                LAMBDA size_string :
                    Ok([member_name |-> pascal_to_snake_case(member.identifier),
                        init_char |-> IF member.data_type.tag = "Empty" THEN "" ELSE ".",
                        spaces |-> amount,
                        verification_string |-> verified /\ counter = 0,
                        counter |-> counter,
                        offset |-> IF member.data_type.tag = "Empty" THEN [form |-> "0"]
                                   ELSE [form |-> "offsetof", struct |-> struct_name,
                                         member |-> pascal_to_snake_case(member.identifier)],
                        size |-> size_string,
                        end |-> IF counter = member_count - 1 THEN " " ELSE ","])))

\* The entries of the field_info table, first to last, left at the first
\* failure.
RECURSIVE field_infos(_, _, _, _, _, _, _)
field_infos(sorted, counter, struct_name, verified, longest, c_standard, printed) ==
    IF counter >= Len(sorted) THEN Ok(printed)
    ELSE Try(field_info(sorted[counter + 1], counter, struct_name, Len(sorted), verified,
                        longest, c_standard),
             LAMBDA entry :
                field_infos(sorted, counter + 1, struct_name, verified, longest,
                            c_standard, Append(printed, entry)))

\* The descriptor of one struct.
output_descriptor(definition, c_standard, profile) ==
    LET struct_name == pascal_to_snake_case(definition.name)
        highest == highest_index(definition.members, 0)
        verified == has_verification(definition.members)
    IN  Try(index_sort(definition.members, 0, highest + 1,
                       [member |-> index_empty(0).value, index_sorted_members |-> <<>>,
                        descriptor_list |-> <<>>, descriptor_flags |-> {},
                        longest_member_name_size |-> 0],
                       profile),
            LAMBDA slots :
                Try(field_infos(slots.index_sorted_members, 0, struct_name,
                                verified, slots.longest_member_name_size, c_standard, <<>>),
                    LAMBDA table :
                        Ok([struct_name |-> struct_name,
                            descriptor_flags |-> slots.descriptor_flags,
                            member_count |-> highest + 1,
                            field_descriptors |-> slots.descriptor_list,
                            largest_field |-> highest,
                            has_verification |-> verified,
                            field_info |-> table])))

\* The descriptors of the structs of the file, first to last.
RECURSIVE output_descriptors(_, _, _, _)
output_descriptors(structs, c_standard, profile, printed) ==
    IF structs = <<>> THEN Ok(printed)
    ELSE Try(output_descriptor(Head(structs), c_standard, profile),
             LAMBDA descriptor :
                output_descriptors(Tail(structs), c_standard, profile,
                                   Append(printed, descriptor)))

\* The source file of one rune file: its name and its descriptors.
output_source(file, configurations_c, profile) ==
    Try(output_descriptors(file.definitions.structs,
                           configurations_c.compiler_configurations.c_standard, profile, <<>>),
        LAMBDA descriptors :
            Ok([c_file_string |-> [relative_path |-> file.relative_path, name |-> file.name],
                descriptors |-> descriptors]))

----------------------------------------------------------------------------
(* The source specification: a file with one struct, a C standard and a    *)
(* build profile are drawn, then output_source is applied.                 *)

\* Most members of the drawn struct.
MaxSourceMembers == 2

InnerName == <<"I", "n", "n", "e", "r">>

\* The data types and links the members are drawn from: a byte, a 64-bit
\* integer and a nested struct.
SourceKinds == <<
    [data_type |-> PrimitiveField("U8"), link |-> NoLink],
    [data_type |-> PrimitiveField("U64"), link |-> NoLink],
    [data_type |-> UserDefinedField(InnerName),
     link |-> StructLink(InnerName,
                         <<StructMember(<<"X">>, PrimitiveField("U8"), Numeric(0), NoLink)>>)]
>>

\* The indices the members are drawn from.
SourceIndices == <<Numeric(0), Numeric(1), Numeric(3), Verifier>>

\* The names the members are drawn from: one shorter and one longer than
\* "(empty)".
SourceIdentifiers == <<
    <<"I", "d">>,
    <<"T", "e", "m", "p", "e", "r", "a", "t", "u", "r", "e">>
>>

\* Verifier members are no nested structs.
SourceMembers ==
    { StructMember(SourceIdentifiers[n], SourceKinds[k].data_type, SourceIndices[x],
                   SourceKinds[k].link) :
        n \in 1..Len(SourceIdentifiers), k \in 1..Len(SourceKinds),
        x \in 1..Len(SourceIndices) }

InitSource ==
    /\ pc = "init"
    /\ configurations \in BitfieldConfigurations
    /\ build \in Builds
    /\ \E n \in 0..MaxSourceMembers :
          \E members \in [1..n -> SourceMembers] :
             /\ \A i \in 1..n :
                   members[i].index.tag = "Verifier" =>
                       members[i].user_definition_link.tag # "StructLink"
             /\ file_descriptions =
                   <<FileOf(<<[name |-> <<"S", "e", "n", "s", "o", "r">>,
                               members |-> members]>>)>>
    /\ struct_definition = Unused
    /\ enum_definition = Unused
    /\ bitfield_definition = Unused
    /\ primitive = Unused
    /\ numeric_literal = Unused
    /\ c_configurations = Unused
    /\ file_index = Unused
    /\ output_files = Unused
    /\ result = Unused

OutputSource ==
    /\ pc = "init"
    /\ pc' = "output_source"
    /\ result' = output_source(file_descriptions[1], CConfigurationsOf(configurations), build)
    /\ UNCHANGED <<configurations, struct_definition, enum_definition,
                   bitfield_definition, primitive, file_descriptions, build,
                   numeric_literal, c_configurations, file_index, output_files>>

NextSource == OutputSource

SpecSource == InitSource /\ [][NextSource]_vars

DrawnStruct == file_descriptions[1].definitions.structs[1]

\* The highest numeric index the struct declares, 0 if it declares none.
HighestNumeric(members) ==
    LET numeric == {members[i].index.value :
                        i \in {j \in 1..Len(members) : members[j].index.tag = "Numeric"}}
                   \cup {0}
    IN  CHOOSE x \in numeric : \A y \in numeric : y <= x

\* A declared member stands at slot k: one with the numeric index k, or the
\* verifier, which output_source keeps at slot 0.
Declared(members, k) ==
    \E i \in 1..Len(members) :
        \/ members[i].index.tag = "Numeric" /\ members[i].index.value = k
        \/ members[i].index.tag = "Verifier" /\ k = 0

\* C5: the field_info table of a rendered descriptor has one slot for each
\* index 0..=highest_index, in this order, and no other slot; a slot whose
\* index no member declares is the empty slot with offset 0 and size 0.
C5_DenseSlots ==
    (pc = "output_source" /\ result.ok) =>
        LET table == result.value.descriptors[1].field_info
            highest == HighestNumeric(DrawnStruct.members)
        IN  /\ Len(table) = highest + 1
            /\ \A k \in 0..highest :
                  /\ table[k + 1].counter = k
                  /\ ~Declared(DrawnStruct.members, k) =>
                        /\ table[k + 1].member_name = EmptyIdentifier
                        /\ table[k + 1].offset = [form |-> "0"]
                        /\ table[k + 1].size = [form |-> "0"]

\* C5 witness: members at the indices 0 and 3 give four slots, the slots 1
\* and 2 empty.
C5_Witness ==
    /\ pc = "output_source" /\ result.ok
    /\ Len(DrawnStruct.members) = 2
    /\ DrawnStruct.members[1].index = Numeric(3)
    /\ DrawnStruct.members[2].index = Numeric(0)
    /\ Len(result.value.descriptors[1].field_info) = 4
    /\ result.value.descriptors[1].field_info[2].size = [form |-> "0"]
    /\ result.value.descriptors[1].field_info[3].offset = [form |-> "0"]
    /\ result.value.descriptors[1].field_info[4].offset.form = "offsetof"

\* The declared members that stand for slot k, by position in the struct.
AtSlot(members, k) ==
    {j \in 1..Len(members) :
        \/ members[j].index.tag = "Numeric" /\ members[j].index.value = k
        \/ members[j].index.tag = "Verifier" /\ k = 0}

\* The member the field_info table shows at slot k is a declared member
\* linked to a struct definition.
LinkedSlot(members, table, k) ==
    \E j \in AtSlot(members, k) :
        /\ table[k + 1].member_name = pascal_to_snake_case(members[j].identifier)
        /\ table[k + 1].offset.form = "offsetof"
        /\ members[j].user_definition_link.tag = "StructLink"

\* The slots of 0..highest whose bit is set, in ascending order.
RECURSIVE SetBitsFrom(_, _, _)
SetBitsFrom(flags, k, highest) ==
    IF k > highest THEN <<>>
    ELSE (IF k \in flags THEN <<k>> ELSE <<>>) \o SetBitsFrom(flags, k + 1, highest)

\* No two members of the drawn struct have the same numeric index.
DistinctNumeric ==
    \A a, b \in 1..Len(DrawnStruct.members) :
        (a # b /\ DrawnStruct.members[a].index.tag = "Numeric")
            => DrawnStruct.members[a].index # DrawnStruct.members[b].index

\* C19: in every rendered descriptor (of a struct with distinct numeric
\* indices), for every i in 0..=highest_index, bit i of descriptor_flags is
\* set if and only if the member in slot i of the field_info table is linked
\* to a struct definition; field_descriptors holds exactly one entry per set
\* bit, in ascending slot order.
C19_FlagsFollowLinks ==
    (pc = "output_source" /\ result.ok /\ DistinctNumeric) =>
        LET descriptor == result.value.descriptors[1]
            members == DrawnStruct.members
            set_bits == SetBitsFrom(descriptor.descriptor_flags, 0, descriptor.largest_field)
        IN  /\ \A i \in 0..descriptor.largest_field :
                  i \in descriptor.descriptor_flags
                     <=> LinkedSlot(members, descriptor.field_info, i)
            /\ descriptor.descriptor_flags \subseteq 0..descriptor.largest_field
            /\ Len(descriptor.field_descriptors) = Len(set_bits)
            /\ \A n \in 1..Len(set_bits) :
                  \E j \in AtSlot(members, set_bits[n]) :
                     /\ members[j].user_definition_link.tag = "StructLink"
                     /\ descriptor.field_descriptors[n]
                           = pascal_to_snake_case(members[j].user_definition_link.name)

\* C19 for the structs where no two members stand for the same slot: there
\* it holds.
C19_WhenSlotsAreDistinct ==
    (\A k \in 0..HighestNumeric(DrawnStruct.members) :
        Cardinality(AtSlot(DrawnStruct.members, k)) <= 1)
        => C19_FlagsFollowLinks

\* A struct with a nested struct at index 0 and a verifier declared after it:
\* slot 0 shows the verifier, bit 0 is set and one descriptor is listed.
C19_SharedSlot ==
    /\ pc = "output_source" /\ result.ok
    /\ Len(DrawnStruct.members) = 2
    /\ DrawnStruct.members[1].index = Numeric(0)
    /\ DrawnStruct.members[1].user_definition_link.tag = "StructLink"
    /\ DrawnStruct.members[2].index = Verifier
    /\ result.value.descriptors[1].descriptor_flags = {0}
    /\ result.value.descriptors[1].field_descriptors = <<pascal_to_snake_case(InnerName)>>
    /\ result.value.descriptors[1].field_info[1].member_name
          = pascal_to_snake_case(DrawnStruct.members[2].identifier)
    /\ result.value.descriptors[1].field_info[1].size.form = "sizeof"

\* The drawn struct as a validated schema has it: no two members with the
\* same name or the same index, the verifier being one index.
DistinctMembers ==
    \A a, b \in 1..Len(DrawnStruct.members) :
        a # b => /\ DrawnStruct.members[a].identifier # DrawnStruct.members[b].identifier
                 /\ DrawnStruct.members[a].index # DrawnStruct.members[b].index

\* The slots of the field_info table that show the member.
SlotsOf(table, member) ==
    {k \in 1..Len(table) :
        table[k].member_name = pascal_to_snake_case(member.identifier)}

\* C29: every declared member, of numeric index or verifier, stands in
\* exactly one slot of the rendered descriptor, and no two declared members
\* stand for the same slot: no declared member is missing from field_info.
C29_EveryMemberHasItsSlot ==
    (pc = "output_source" /\ result.ok /\ DistinctMembers) =>
        LET table == result.value.descriptors[1].field_info
        IN  /\ \A i \in 1..Len(DrawnStruct.members) :
                  Cardinality(SlotsOf(table, DrawnStruct.members[i])) = 1
            /\ \A k \in 0..(Len(table) - 1) :
                  Cardinality(AtSlot(DrawnStruct.members, k)) <= 1

\* C29 for the structs that do not declare both a verifier and the index 0:
\* there it holds.
C29_WithoutVerifierBesideIndexZero ==
    ~(\E a, b \in 1..Len(DrawnStruct.members) :
         /\ DrawnStruct.members[a].index = Verifier
         /\ DrawnStruct.members[b].index = Numeric(0))
        => C29_EveryMemberHasItsSlot

\* A struct of a member at index 0 and a verifier: the table has one slot,
\* it shows the verifier, and the member of index 0 is in no slot.
C29_MemberMissing ==
    /\ pc = "output_source" /\ result.ok /\ DistinctMembers
    /\ Len(DrawnStruct.members) = 2
    /\ DrawnStruct.members[1].index = Numeric(0)
    /\ DrawnStruct.members[2].index = Verifier
    /\ Len(result.value.descriptors[1].field_info) = 1
    /\ SlotsOf(result.value.descriptors[1].field_info, DrawnStruct.members[1]) = {}
    /\ SlotsOf(result.value.descriptors[1].field_info, DrawnStruct.members[2]) = {1}

----------------------------------------------------------------------------
(* header.rs: output_struct_initializer, output_define, output_header *)

\* The length of the text of a primitive initializer.
initializer_length(text) ==
    CASE text = "0" -> 1
      [] text = "0.0" -> 3
      [] text = "false" -> 5
      [] text = "{ 0 }" -> 5

\* FieldType::c_initializer: the initializer of a member and its length.
field_c_initializer(data_type, c_standard) ==
    CASE data_type.tag = "Primitive" ->
            Ok([text |-> c_initializer(data_type.primitive, c_standard),
                length |-> initializer_length(c_initializer(data_type.primitive, c_standard))])
      [] data_type.tag = "UserDefined" ->
            Ok([text |-> [upper |-> pascal_to_uppercase(data_type.name), suffix |-> "_INIT"],
                length |-> Len(pascal_to_uppercase(data_type.name)) + 5])
      [] data_type.tag = "Array" ->
            (IF data_type.array_type.tag = "Primitive"
             THEN IF data_type.array_type.primitive \in {"I128", "U128"}
                  THEN Ok([text |-> [braced |-> "0"], length |-> 5])
                  ELSE Ok([text |-> [braced |-> c_initializer(data_type.array_type.primitive,
                                                               c_standard)],
                           length |-> 4 + initializer_length(
                                             c_initializer(data_type.array_type.primitive,
                                                           c_standard))])
             ELSE Ok([text |-> [braced |-> [upper |-> pascal_to_uppercase(data_type.array_type.name),
                                            suffix |-> "_INIT"]],
                      length |-> 4 + Len(pascal_to_uppercase(data_type.array_type.name)) + 5]))
      [] data_type.tag = "Empty" -> Err("LogicError")

\* pre_equal_length: the longest identifier of the list.
RECURSIVE pre_equal_length(_, _)
pre_equal_length(list, longest) ==
    IF list = <<>> THEN longest
    ELSE pre_equal_length(Tail(list),
                          IF Len(Head(list).identifier) > longest
                          THEN Len(Head(list).identifier) ELSE longest)

\* The first loop of output_struct_initializer from member i on:
\* pre_newline_length grows to string.len() - 2 of the longest line.
RECURSIVE pre_newline_length(_, _, _, _, _)
pre_newline_length(list, i, longest_identifier, c_standard, longest) ==
    IF i > Len(list) THEN Ok(longest)
    ELSE Try(field_c_initializer(list[i].data_type, c_standard),
             LAMBDA initializer :
                LET comma == IF i # Len(list) THEN 1 ELSE 0
                    length == IF allows_designated_initializers(c_standard)
                              THEN 10 + longest_identifier + initializer.length + comma
                              ELSE 6 + initializer.length + comma
                IN  pre_newline_length(list, i + 1, longest_identifier, c_standard,
                                       IF length - 2 > longest THEN length - 2 ELSE longest))

\* pre_newline of one line: the subtractions, left to right on usize, then
\* the 1 added for the last member.  A difference below zero panics in a
\* debug build; a release build wraps, and the 1 added brings -1 back to 0.
pre_newline(longest, longest_identifier, length, static_length, last, profile) ==
    LET difference == longest - longest_identifier - length - static_length
    IN  IF difference >= 0 THEN Ok(difference + last)
        ELSE IF profile = "debug" THEN Panic
        ELSE IF difference + last >= 0 THEN Ok(difference + last)
        ELSE Panic

\* The second loop of output_struct_initializer from member i on: the lines.
RECURSIVE initializer_lines(_, _, _, _, _, _)
initializer_lines(list, i, longest_identifier, longest, c_standard, profile) ==
    IF i > Len(list) THEN Ok(<<>>)
    ELSE Try(field_c_initializer(list[i].data_type, c_standard),
             LAMBDA initializer :
                Try(IF allows_designated_initializers(c_standard)
                    THEN pre_newline(longest, longest_identifier, initializer.length, 9,
                                     IF i = Len(list) THEN 1 ELSE 0, profile)
                    ELSE pre_newline(longest, 0, initializer.length, 5,
                                     IF i = Len(list) THEN 1 ELSE 0, profile),
                    LAMBDA spaces_after :
                        Try(initializer_lines(list, i + 1, longest_identifier, longest,
                                              c_standard, profile),
                            LAMBDA rest :
                                Ok(<<[designator |->
                                         IF allows_designated_initializers(c_standard)
                                         THEN list[i].identifier ELSE <<>>,
                                      pre_equal |->
                                         IF allows_designated_initializers(c_standard)
                                         THEN longest_identifier - Len(list[i].identifier)
                                         ELSE 0,
                                      initializer |-> initializer.text,
                                      comma |-> i # Len(list),
                                      pre_newline |-> spaces_after]>> \o rest))))

\* output_struct_initializer: the NAME_INIT macro of a struct.
output_struct_initializer(configurations_c, definition, profile) ==
    LET c_standard == configurations_c.compiler_configurations.c_standard
        define_size == 20 + Len(pascal_to_uppercase(definition.name))
                          + Len(pascal_to_snake_case(definition.name))
    IN  Try(printed_order(configurations_c, definition),
            LAMBDA sorted_member_list :
                Try(pre_newline_length(sorted_member_list, 1,
                                       pre_equal_length(sorted_member_list, 0),
                                       c_standard, define_size),
                    LAMBDA longest :
                        Try(initializer_lines(sorted_member_list, 1,
                                              pre_equal_length(sorted_member_list, 0),
                                              longest, c_standard, profile),
                            LAMBDA lines :
                                Ok([define |-> [upper |-> pascal_to_uppercase(definition.name),
                                                suffix |-> "_INIT"],
                                    type |-> pascal_to_snake_case(definition.name),
                                    spaces |-> longest - define_size,
                                    lines |-> lines]))))

\* output_define: name and value of a define.
output_define(define) == [name |-> define.name, value |-> define.value]

\* The enums of a header, first to last.
RECURSIVE output_enums(_, _, _)
output_enums(enums, configurations_c, printed) ==
    IF enums = <<>> THEN Ok(printed)
    ELSE Try(output_enum(configurations_c, Head(enums)),
             LAMBDA enum : output_enums(Tail(enums), configurations_c, Append(printed, enum)))

\* The bitfields of a header, first to last.
RECURSIVE output_bitfields(_, _, _, _)
output_bitfields(bitfields, configurations_c, profile, printed) ==
    IF bitfields = <<>> THEN Ok(printed)
    ELSE Try(output_bitfield(configurations_c, Head(bitfields), profile),
             LAMBDA bitfield :
                output_bitfields(Tail(bitfields), configurations_c, profile,
                                 Append(printed, bitfield)))

\* The structs of a header, first to last: declaration, then initializer.
RECURSIVE output_structs(_, _, _, _)
output_structs(structs, configurations_c, profile, printed) ==
    IF structs = <<>> THEN Ok(printed)
    ELSE Try(output_struct(configurations_c, Head(structs)),
             LAMBDA declaration :
                Try(output_struct_initializer(configurations_c, Head(structs), profile),
                    LAMBDA initializer :
                        output_structs(Tail(structs), configurations_c, profile,
                                       Append(printed, [declaration |-> declaration,
                                                        initializer |-> initializer]))))

\* The name of a file in upper case.
to_uppercase(name) == [i \in 1..Len(name) |-> to_ascii_uppercase(name[i])]

\* output_header: the content of the header of one rune file, before it is
\* written.
output_header(file, configurations_c, profile) ==
    Try(output_enums(file.definitions.enums, configurations_c, <<>>),
        LAMBDA enums :
            Try(output_bitfields(file.definitions.bitfields, configurations_c, profile, <<>>),
                LAMBDA bitfields :
                    Try(output_structs(file.definitions.structs, configurations_c, profile, <<>>),
                        LAMBDA structs :
                            Ok([path |-> [relative_path |-> file.relative_path,
                                          name |-> file.name, extension |-> ".rune.h"],
                                guard |-> to_uppercase(file.name),
                                includes |-> file.definitions.includes,
                                defines |-> [i \in 1..Len(file.definitions.defines) |->
                                                output_define(file.definitions.defines[i])],
                                enums |-> enums,
                                bitfields |-> bitfields,
                                structs |-> structs]))))

----------------------------------------------------------------------------
(* runic_definitions.rs: output_runic_definitions; parser.rs: output_parser *)

\* The order of two letters by their ASCII codes in upper case.
letter_code(letter) ==
    IF is_ascii_uppercase(to_ascii_uppercase(letter))
    THEN 64 + (CHOOSE i \in 1..Len(UpperCase) : UpperCase[i] = to_ascii_uppercase(letter))
    ELSE 0

\* a.to_ascii_uppercase().cmp(b.to_ascii_uppercase()) is Less or Equal, from
\* the i-th letter on.
RECURSIVE not_after(_, _, _)
not_after(a, b, i) ==
    IF i > Len(a) THEN TRUE
    ELSE IF i > Len(b) THEN FALSE
    ELSE IF letter_code(a[i]) # letter_code(b[i]) THEN letter_code(a[i]) < letter_code(b[i])
    ELSE not_after(a, b, i + 1)

\* appended: sorted_insert putting every struct at the end.
appended(sorted, definition) == Append(sorted, definition)

\* One struct put into a sorted list behind the last one that is not after it.
RECURSIVE sorted_insert(_, _)
sorted_insert(sorted, definition) ==
    IF sorted = <<>> THEN <<definition>>
    ELSE IF not_after(sorted[Len(sorted)].name, definition.name, 1)
         THEN Append(sorted, definition)
         ELSE Append(sorted_insert(SubSeq(sorted, 1, Len(sorted) - 1), definition),
                     sorted[Len(sorted)])

\* struct_definitions.sort_by(upper-case name): a stable sort.
RECURSIVE sort_by_name(_, _)
sort_by_name(structs, sorted) ==
    IF structs = <<>> THEN sorted
    ELSE sort_by_name(Tail(structs), sorted_insert(sorted, Head(structs)))

\* A list with all declared structs across all files.
RECURSIVE struct_definitions(_)
struct_definitions(files) ==
    IF files = <<>> THEN <<>>
    ELSE Head(files).definitions.structs \o struct_definitions(Tail(files))

\* type_from_size: the unsigned type of a width.
type_from_size(size) ==
    CASE size = 1 -> Ok("uint8_t")
      [] size = 2 -> Ok("uint16_t")
      [] size = 4 -> Ok("uint32_t")
      [] size = 8 -> Ok("uint64_t")
      [] OTHER -> Panic

\* The type a metadata macro names.
metadata_type(configurations_c, size) ==
    IF configurations_c.compiler_configurations.pack_metadata
    THEN type_from_size(size) ELSE Ok("size_t")

NoSection == [tag |-> "None"]
Section(name) == [tag |-> "Some", name |-> name]

\* The longest upper-case name of the structs.
RECURSIVE longest_struct_name(_, _)
longest_struct_name(structs, longest) ==
    IF structs = <<>> THEN longest
    ELSE longest_struct_name(Tail(structs),
                             IF Len(pascal_to_uppercase(Head(structs).name)) > longest
                             THEN Len(pascal_to_uppercase(Head(structs).name)) ELSE longest)

\* output_runic_definitions: the content of rune.h, before it is written.
output_runic_definitions(files, configurations_c) ==
    LET config == configurations_c.compiler_configurations
        sorted == sort_by_name(struct_definitions(files), <<>>)
        packed == IF config.pack_data THEN <<"packed">> ELSE <<>>
    IN  Try(metadata_type(configurations_c, configurations_c.field_size_type_size),
         LAMBDA field_size_type :
          Try(metadata_type(configurations_c, configurations_c.field_offset_type_size),
           LAMBDA field_offset_type :
            Try(metadata_type(configurations_c, configurations_c.message_size_type_size),
             LAMBDA message_size_type :
              Try(metadata_type(configurations_c, configurations_c.parser_index_type_size),
               LAMBDA parser_index_type :
                Ok([path |-> "rune.h",
                    runic_bitfield |-> <<"packed">>,
                    runic_enum |-> <<>>,
                    runic_parser |-> packed \o (IF config.section = NoSection THEN <<>>
                                                ELSE <<config.section>>),
                    runic_struct |-> packed,
                    runic_metadata |-> IF config.pack_metadata THEN <<"packed">> ELSE <<>>,
                    field_size_type |-> field_size_type,
                    field_offset_type |-> field_offset_type,
                    message_size_type |-> message_size_type,
                    parser_index_type |-> parser_index_type,
                    parser_count |-> Len(sorted),
                    parser_index |->
                        [i \in 1..Len(sorted) |->
                            [name |-> pascal_to_uppercase(sorted[i].name),
                             spaces |-> longest_struct_name(sorted, 0)
                                           - Len(pascal_to_uppercase(sorted[i].name)),
                             index |-> i]]])))))

\* output_parser: the content of runic_parser.c, before it is written.
output_parser(files, configurations_c) ==
    LET sorted == sort_by_name(struct_definitions(files), <<>>)
    IN  Ok([path |-> "runic_parser.c",
            externs |-> [i \in 1..Len(sorted) |-> pascal_to_snake_case(sorted[i].name)],
            parser_array |-> [i \in 1..Len(sorted) |->
                                 [parser |-> pascal_to_snake_case(sorted[i].name),
                                  end |-> IF i = Len(sorted) THEN "" ELSE ","]]])

\* get_parser of the emitted runic_parser.c: parser_array[index - 1], the
\* array counted from 0.
get_parser(parser_array, index) == parser_array[(index - 1) + 1]

----------------------------------------------------------------------------
(* output_file.rs: OutputFile::output_file; main.rs: output_c_files *)

\* What the file system does to one output_file call: the file is written;
\* or a folder cannot be made, the old file not removed or the new one not
\* created; or the file is created and the write or the flush fails.
FileSystemOutcomes == {"written", "not created", "created"}

\* OutputFile::output_file: the result, and the files it leaves behind.
output_file(content, outcome) ==
    [result |-> IF outcome = "written" THEN Ok(<<>>) ELSE Err("FileSystemError"),
     files |-> IF outcome = "not created" THEN <<>>
               ELSE <<[content |-> content, complete |-> outcome = "written"]>>]

----------------------------------------------------------------------------
(* The run specification: the files of a run, a configuration and a build  *)
(* profile are drawn; output_c_files then goes step by step: the global    *)
(* sizing, rune.h, header and source of each file, runic_parser.c.  The    *)
(* file system decides the outcome of every output_file call.              *)

\* A rune file with its name and definitions.
RuneFile(name, defines, enums, bitfields, structs) ==
    [name |-> name, relative_path |-> <<>>,
     definitions |-> [includes |-> <<>>, defines |-> defines, enums |-> enums,
                      bitfields |-> bitfields, structs |-> structs]]

\* The files of the drawn runs: a struct of one byte with a define; a struct
\* with a 64-bit member, which no standard before C99 can declare; an enum
\* and a bitfield without structs; a file without definitions; a struct of
\* 300 bytes; a struct without members; a struct of a byte and a member
\* linked to the struct without members.
RunFileKinds == <<
    RuneFile(<<"s", "e", "n", "s", "o", "r">>,
             <<[name |-> <<"L", "I", "M", "I", "T">>, value |-> DefineOf(0, 16)]>>, <<>>, <<>>,
             <<[name |-> <<"S", "e", "n", "s", "o", "r">>,
                members |-> <<StructMember(<<"I", "d">>, PrimitiveField("U8"),
                                           Numeric(0), NoLink)>>]>>),
    RuneFile(<<"w", "i", "d", "e">>, <<>>, <<>>, <<>>,
             <<[name |-> <<"C", "o", "u", "n", "t", "e", "r">>,
                members |-> <<StructMember(<<"T", "i", "c", "k", "s">>, PrimitiveField("U64"),
                                           Numeric(0), NoLink)>>]>>),
    RuneFile(<<"l", "a", "m", "p">>, <<>>,
             <<EnumDefinition(<<"L", "a", "m", "p", "C", "o", "l", "o", "r">>, "U8",
                              <<EnumMember(<<"R", "e", "d">>, PositiveInteger(Small(0, 255)))>>)>>,
             <<BitfieldDefinition(<<"F", "l", "a", "g", "s">>, "U8",
                                  <<BitfieldMember(<<"O", "n">>, Unsigned(U64Bytes(1)), 0)>>)>>,
             <<>>),
    RuneFile(<<"e", "m", "p", "t", "y">>, <<>>, <<>>, <<>>, <<>>),
    RuneFile(<<"f", "r", "a", "m", "e">>, <<>>, <<>>, <<>>,
             <<[name |-> <<"F", "r", "a", "m", "e">>,
                members |-> <<StructMember(<<"P", "a", "y", "l", "o", "a", "d">>,
                                           ByteArray(300), Numeric(0), NoLink)>>]>>),
    RuneFile(<<"u", "n", "i", "t">>, <<>>, <<>>, <<>>,
             <<[name |-> <<"U", "n", "i", "t">>, members |-> <<>>]>>),
    RuneFile(<<"h", "o", "l", "d", "e", "r">>, <<>>, <<>>, <<>>,
             <<[name |-> <<"H", "o", "l", "d", "e", "r">>,
                members |-> <<StructMember(<<"I", "d">>, PrimitiveField("U8"),
                                           Numeric(0), NoLink),
                              StructMember(<<"N", "o", "t", "h", "i", "n", "g">>,
                                           UserDefinedField(<<"U", "n", "i", "t">>),
                                           Numeric(1),
                                           StructLink(<<"U", "n", "i", "t">>, <<>>))>>]>>)
>>

RunConfigurations ==
    [architecture : {"_64Bit"}, pack_data : {FALSE}, sort : {TRUE},
     pack_metadata : BOOLEAN, c_standard : {C89, C99},
     section : {NoSection, Section("rune")}]

InitRun ==
    /\ pc = "init"
    /\ configurations \in RunConfigurations
    /\ build \in Builds
    /\ \E n \in 0..MaxFiles :
          \E pick \in [1..n -> 1..Len(RunFileKinds)] :
             file_descriptions = [i \in 1..n |-> RunFileKinds[pick[i]]]
    /\ c_configurations = Unused
    /\ file_index = 1
    /\ output_files = <<>>
    /\ struct_definition = Unused
    /\ enum_definition = Unused
    /\ bitfield_definition = Unused
    /\ primitive = Unused
    /\ numeric_literal = Unused
    /\ result = Unused

\* SizingOfFirstFile: GlobalSizing over the first file only.
SizingOfFirstFile ==
    /\ pc = "init"
    /\ LET sizing == parse(IF file_descriptions = <<>> THEN <<>>
                            ELSE <<Head(file_descriptions)>>, configurations)
       IN  IF sizing.ok
           THEN /\ c_configurations' = sizing.value
                /\ pc' = "output_runic_definitions"
                /\ result' = result
           ELSE /\ c_configurations' = c_configurations
                /\ pc' = "failed"
                /\ result' = sizing
    /\ UNCHANGED <<configurations, struct_definition, enum_definition,
                   bitfield_definition, primitive, file_descriptions, build,
                   numeric_literal, file_index, output_files>>

\* let c_configurations = CConfigurations::parse(...): a failure ends the run.
GlobalSizing ==
    /\ pc = "init"
    /\ LET sizing == parse(file_descriptions, configurations)
       IN  IF sizing.ok
           THEN /\ c_configurations' = sizing.value
                /\ pc' = "output_runic_definitions"
                /\ result' = result
           ELSE /\ c_configurations' = c_configurations
                /\ pc' = "failed"
                /\ result' = sizing
    /\ UNCHANGED <<configurations, struct_definition, enum_definition,
                   bitfield_definition, primitive, file_descriptions, build,
                   numeric_literal, file_index, output_files>>

\* One rendering step of output_c_files: the content is rendered, then
\* output_file is called on it; a failure of either ends the run (`?`).
RenderingStep(content, next_pc, next_index) ==
    \E outcome \in FileSystemOutcomes :
        LET written == IF content.ok THEN output_file(content.value, outcome)
                       ELSE [result |-> content, files |-> <<>>]
        IN  /\ output_files' = output_files \o written.files
            /\ IF written.result.ok
               THEN /\ pc' = next_pc
                    /\ file_index' = next_index
                    /\ result' = IF next_pc = "done" THEN Ok(<<>>) ELSE result
               ELSE /\ pc' = "failed"
                    /\ file_index' = file_index
                    /\ result' = written.result

\* output_runic_definitions(&file_descriptions, &c_configurations, output_path)?
OutputRunicDefinitions ==
    /\ pc = "output_runic_definitions"
    /\ RenderingStep(output_runic_definitions(file_descriptions, c_configurations),
                     IF file_descriptions = <<>> THEN "output_parser" ELSE "output_header",
                     file_index)
    /\ UNCHANGED <<configurations, struct_definition, enum_definition,
                   bitfield_definition, primitive, file_descriptions, build,
                   numeric_literal, c_configurations>>

\* output_header(&file, &c_configurations, output_path)?
OutputHeader ==
    /\ pc = "output_header"
    /\ RenderingStep(output_header(file_descriptions[file_index], c_configurations, build),
                     "output_source", file_index)
    /\ UNCHANGED <<configurations, struct_definition, enum_definition,
                   bitfield_definition, primitive, file_descriptions, build,
                   numeric_literal, c_configurations>>

\* output_source(&file, &c_configurations, output_path)?, then the next file.
OutputSourceOfFile ==
    /\ pc = "output_source"
    /\ RenderingStep(output_source(file_descriptions[file_index], c_configurations, build),
                     IF file_index = Len(file_descriptions)
                     THEN "output_parser" ELSE "output_header",
                     file_index + 1)
    /\ UNCHANGED <<configurations, struct_definition, enum_definition,
                   bitfield_definition, primitive, file_descriptions, build,
                   numeric_literal, c_configurations>>

\* output_parser(&file_descriptions, &c_configurations, output_path)?; Ok(())
OutputParser ==
    /\ pc = "output_parser"
    /\ RenderingStep(output_parser(file_descriptions, c_configurations), "done", file_index)
    /\ UNCHANGED <<configurations, struct_definition, enum_definition,
                   bitfield_definition, primitive, file_descriptions, build,
                   numeric_literal, c_configurations>>

NextRun ==
    \/ GlobalSizing
    \/ OutputRunicDefinitions
    \/ OutputHeader
    \/ OutputSourceOfFile
    \/ OutputParser

SpecRun == InitRun /\ [][NextRun]_vars

\* C11: a run of output_c_files is all-or-nothing: when a step fails (the
\* global sizing, the definitions header, a header or a source of a file,
\* the parser source), no output file has been written by the run.
C11_AllOrNothing == pc = "failed" => output_files = <<>>

\* A run under C89 over a file with a 64-bit member: rune.h is written in
\* full, then output_header fails, and rune.h stays.
C11_DefinitionsLeftBehind ==
    /\ pc = "failed"
    /\ result = Err("SourceAndCStandardMismatch")
    /\ Len(output_files) = 1
    /\ output_files[1].complete
    /\ output_files[1].content.path = "rune.h"

\* A failure of the global sizing does leave nothing behind.
C11_SizingFailureWritesNothing ==
    (pc = "failed" /\ ~parse(file_descriptions, configurations).ok) => output_files = <<>>

RenderingSteps == {"output_runic_definitions", "output_header", "output_source",
                   "output_parser", "done"}

\* C12: the global sizing pass has gone over every struct of every file and
\* has finished before the first rendering step starts, and the sizing values
\* stay the same through every later step.
C12_SizingBeforeRendering ==
    /\ [](/\ pc = "init" => output_files = <<>> /\ c_configurations = Unused
          /\ (pc \in RenderingSteps \/ output_files # <<>>) =>
                /\ parse(file_descriptions, configurations).ok
                /\ c_configurations = parse(file_descriptions, configurations).value)
    /\ [][pc # "init" => c_configurations' = c_configurations]_vars

\* C12 witness: a finished run over a struct of 1 byte and one of 300 bytes,
\* with six files written and the widths of both structs together.
C12_Witness ==
    /\ pc = "done"
    /\ Len(file_descriptions) = 2
    /\ Len(struct_definitions(file_descriptions)) = 2
    /\ parse(SubSeq(file_descriptions, 1, 1), configurations).value.message_size_type_size = 1
    /\ c_configurations.message_size_type_size = 2
    /\ Len(output_files) = 6
    /\ output_files[1].content.message_size_type
          = IF configurations.pack_metadata THEN "uint16_t" ELSE "size_t"

\* The header and the source among the written contents.
IsHeader(content) == "guard" \in DOMAIN content

IsSource(content) == "c_file_string" \in DOMAIN content

\* The names the declaration of a struct declares.
DeclaredNames(declaration) == {declaration.lines[k].name : k \in 1..Len(declaration.lines)}

\* The members a descriptor takes an offset of.
ReferencedNames(descriptor) ==
    {descriptor.field_info[k].offset.member :
        k \in {j \in 1..Len(descriptor.field_info) :
                  descriptor.field_info[j].offset.form = "offsetof"}}

\* C28: for every struct, every non-empty slot of the descriptor output_source
\* renders, whose offset is offsetof(struct, member), names a member of the
\* declaration output_struct emitted for that struct; a declared member of
\* resolved size 0, dropped from the declaration, is not named.
C28_OffsetsOfDeclaredMembers ==
    \A a, b \in 1..Len(output_files) :
        LET header == output_files[a].content
            source == output_files[b].content
        IN  (IsHeader(header) /\ IsSource(source)
                /\ header.path.name = source.c_file_string.name) =>
                \A i \in 1..Len(source.descriptors) :
                    /\ header.structs[i].declaration.struct_name
                          = source.descriptors[i].struct_name
                    /\ ReferencedNames(source.descriptors[i])
                          \subseteq DeclaredNames(header.structs[i].declaration)

\* C28 for the runs in which no declared member resolves to the size 0:
\* there it holds.
C28_WhenNoMemberIsDropped ==
    (\A f \in 1..Len(file_descriptions) :
        \A i \in 1..Len(file_descriptions[f].definitions.structs) :
            \A k \in 1..Len(file_descriptions[f].definitions.structs[i].members) :
                c_size(file_descriptions[f].definitions.structs[i].members[k]) # Ok(0))
        => C28_OffsetsOfDeclaredMembers

\* Header and source of the struct Holder { Id: u8, Nothing: Unit } are both
\* written: the declaration has the member id alone, the descriptor takes
\* the offset of id and of nothing.
C28_OffsetOfDroppedMember ==
    \E a, b \in 1..Len(output_files) :
        LET header == output_files[a].content
            source == output_files[b].content
        IN  /\ IsHeader(header) /\ IsSource(source)
            /\ output_files[a].complete /\ output_files[b].complete
            /\ header.path.name = <<"h", "o", "l", "d", "e", "r">>
            /\ source.c_file_string.name = <<"h", "o", "l", "d", "e", "r">>
            /\ DeclaredNames(header.structs[1].declaration) = {<<"i", "d">>}
            /\ ReferencedNames(source.descriptors[1])
                  = {<<"i", "d">>, <<"n", "o", "t", "h", "i", "n", "g">>}

\* rune.h and runic_parser.c among the written contents.
IsDefinitions(content) == "parser_count" \in DOMAIN content

IsParser(content) == "parser_array" \in DOMAIN content

\* The structs of the files of the run, as pairs of file and position.
StructsOfRun ==
    UNION {{<<f, i>> : i \in 1..Len(file_descriptions[f].definitions.structs)} :
              f \in 1..Len(file_descriptions)}

NameOfStruct(at) == file_descriptions[at[1]].definitions.structs[at[2]].name

\* C25: runic_parser.c lists one entry for every struct of every file, in
\* alphabetical order of the struct names, and rune.h agrees with it:
\* RUNE_PARSER_COUNT is the number of entries, and the RUNE_<NAME>_PARSER_INDEX
\* of every struct, given to get_parser, selects the entry of that struct.
C25_IndexSelectsParser ==
    \A a, b \in 1..Len(output_files) :
        LET definitions == output_files[a].content
            parser == output_files[b].content
        IN  (IsDefinitions(definitions) /\ IsParser(parser)) =>
            LET entries == parser.parser_array
            IN  /\ Len(entries) = Cardinality(StructsOfRun)
                /\ \A at \in StructsOfRun :
                      Cardinality({k \in 1..Len(entries) :
                                     entries[k].parser = pascal_to_snake_case(NameOfStruct(at))})
                        = Cardinality({other \in StructsOfRun :
                                         NameOfStruct(other) = NameOfStruct(at)})
                /\ \A i, j \in 1..Len(entries) :
                      i < j => not_after(entries[i].parser, entries[j].parser, 1)
                /\ definitions.parser_count = Len(entries)
                /\ Len(definitions.parser_index) = Len(entries)
                /\ \A at \in StructsOfRun :
                      \E m \in 1..Len(definitions.parser_index) :
                          definitions.parser_index[m].name
                              = pascal_to_uppercase(NameOfStruct(at))
                /\ \A m \in 1..Len(definitions.parser_index) :
                      /\ definitions.parser_index[m].index \in 1..definitions.parser_count
                      /\ \E at \in StructsOfRun :
                            /\ definitions.parser_index[m].name
                                  = pascal_to_uppercase(NameOfStruct(at))
                            /\ get_parser(entries, definitions.parser_index[m].index).parser
                                  = pascal_to_snake_case(NameOfStruct(at))

\* C25 witness: a run over the files of Sensor and Counter, in that order,
\* has written rune.h and runic_parser.c: Counter is the first entry, Sensor
\* the second, and RUNE_SENSOR_PARSER_INDEX is 2.
C25_Witness ==
    /\ pc = "done"
    /\ Len(file_descriptions) = 2
    /\ file_descriptions[1].name = <<"s", "e", "n", "s", "o", "r">>
    /\ file_descriptions[2].name = <<"w", "i", "d", "e">>
    /\ \E a, b \in 1..Len(output_files) :
          LET definitions == output_files[a].content
              parser == output_files[b].content
          IN  /\ IsDefinitions(definitions) /\ IsParser(parser)
              /\ output_files[a].complete /\ output_files[b].complete
              /\ definitions.parser_count = 2
              /\ definitions.parser_index[2].name = <<"S", "E", "N", "S", "O", "R">>
              /\ definitions.parser_index[2].index = 2
              /\ get_parser(parser.parser_array, 2).parser = <<"s", "e", "n", "s", "o", "r">>
              /\ get_parser(parser.parser_array, 1).parser
                    = <<"c", "o", "u", "n", "t", "e", "r">>

====
